---- MODULE Spec2Model ----
(***************************************************************************)
(* Model of the incremental job synchronizer of Market_Analyzer:           *)
(* scripts/migrate_to_sqlite.py (class DatabaseMigrator, PostgreSQL        *)
(* backend through psycopg2).                                              *)
(*                                                                         *)
(* Text that the code splits or strips (location descriptions, skill       *)
(* names) is a sequence of one-character strings; text that the code only  *)
(* compares (external ids, company names, titles) is a TLA+ string.        *)
(* Timestamps are the values of an integer clock.                          *)
(***************************************************************************)
EXTENDS Integers, Sequences, FiniteSets, TLC

VARIABLES
    clock,          \* the wall clock read by datetime.now()
    pending,        \* run_timestamp of every migrator constructed and not yet run
    durable,        \* the committed contents of the store
    db,             \* the store as the open connection sees it (durable + open transaction)
    txn,            \* state of the connection's transaction: "ok", "aborted",
                    \* or "lost" with the connection
    seq,            \* the store's id sequences (never rolled back)
    cache,          \* the four caches of the running migrator
    stats,          \* self.stats of the running migrator
    run_timestamp,  \* self.run_timestamp of the running migrator (0: no migrator running)
    phase,          \* position of migrate(): "idle", "importing", "committed",
                    \* "reconciled", or "unreconciled" after a failed mark_closed_jobs
    i,              \* rows the loop of migrate() has read in this run
    batch,          \* the rows this run has read from its CSV file, in order
    last,           \* the latest import_job call: its row and its return value
    touched,        \* external ids for which import_job returned True in this run
    atStart,        \* the committed tables when this run connected
    prev,           \* the latest completed run: its batch, timestamp, the tables it left
    nread,          \* rows read so far by all the runs together
    google,         \* the latest save_google_jobs_to_db call: its jobs, the stats returned
    salary_str,     \* a salary text handed to parse_salary
    salary,         \* what parse_salary returned for it
    job_city,       \* a location description and is_remote flag handed to
                    \* get_or_create_location
    located,        \* the key get_or_create_location and _parse_google_location
                    \* derived from it
    permuted,       \* a batch, a store, and the caches two migrators end with when
                    \* they import the batch in two orders
    replication     \* migrate_sqlite_to_postgres.migrate: the SQLite tables it reads
                    \* and the statement it has reached

vars == <<clock, pending, durable, db, txn, seq, cache, stats, run_timestamp,
          phase, i, batch, last, touched, atStart, prev, nread, google, salary_str,
          salary, job_city, located, permuted, replication>>

----------------------------------------------------------------------------
(* Bounds of the model *)

\* migrators constructed in one behaviour (the clock ticks once per construction)
MaxRuns == 3
\* rows all the runs of one behaviour read from their CSV files
MaxRows == 3

\* length of the salary texts tried on parse_salary
MaxSalaryLen == 4

\* jobs handed to one call of save_google_jobs_to_db
MaxGoogleJobs == 1

\* length of the location descriptions tried on get_or_create_location
MaxLocationLen == 4

\* rows of the CSV file of the runs that reach the periodic commit
MaxFileRows == 101

----------------------------------------------------------------------------
(* Text *)

\* Python's None (SQL NULL) where the value is text modelled as a character sequence
None == <<"None">>

\* Python's None (SQL NULL) where the value is text modelled as a string
NoneS == "None"

IsSpace(ch) == ch = " "

RECURSIVE lstrip(_)
lstrip(s) ==
    IF s = <<>> THEN <<>>
    ELSE IF IsSpace(Head(s)) THEN lstrip(Tail(s)) ELSE s

RECURSIVE rstrip(_)
rstrip(s) ==
    IF s = <<>> THEN <<>>
    ELSE IF IsSpace(s[Len(s)]) THEN rstrip(SubSeq(s, 1, Len(s) - 1)) ELSE s

\* str.strip()
strip(s) == rstrip(lstrip(s))

\* "," in s
HasComma(s) == \E k \in 1..Len(s) : s[k] = ","

\* index of the first comma of s (s has one)
FirstComma(s) == CHOOSE k \in 1..Len(s) : s[k] = "," /\ \A j \in 1..(k - 1) : s[j] # ","

\* str.split(","): the pieces between the commas, in order
RECURSIVE split(_)
split(s) ==
    IF ~HasComma(s) THEN <<s>>
    ELSE <<SubSeq(s, 1, FirstComma(s) - 1)>> \o split(SubSeq(s, FirstComma(s) + 1, Len(s)))

\* str.lower() on the values the is_remote column takes
lower(s) == IF s = "True" THEN "true" ELSE IF s = "False" THEN "false" ELSE s

----------------------------------------------------------------------------
(* Dictionaries and tables *)

EmptyDict == [k \in {} |-> 0]

Put(d, k, v) == [x \in (DOMAIN d) \cup {k} |-> IF x = k THEN v ELSE d[x]]

EmptyTables ==
    [companies |-> {}, locations |-> {}, skill_categories |-> {}, skills |-> {},
     jobs |-> {}, job_locations |-> <<>>, job_skills |-> <<>>]

EmptySeqs ==
    [companies |-> 0, locations |-> 0, skill_categories |-> 0, skills |-> 0, jobs |-> 0]

EmptyCaches ==
    [company |-> EmptyDict, location |-> EmptyDict, skill |-> EmptyDict,
     skill_category |-> EmptyDict]

ZeroStats ==
    [jobs_imported |-> 0, jobs_updated |-> 0, companies_created |-> 0,
     locations_created |-> 0, skills_created |-> 0, job_skills_created |-> 0,
     jobs_closed |-> 0, errors |-> 0]

\* cursor.fetchone()[0] after a SELECT id: the id of a matching row
FetchId(rows) == (CHOOSE r \in rows : TRUE).id

\* col = %s in a WHERE clause: never true when either side is NULL
SqlEq(a, b) == a # None /\ b # None /\ a = b

\* a value a TIMESTAMP column accepts
ValidTimestamp(v) == v \in {NoneS, "2024-01-01"}

\* a statement sent while the transaction is aborted or the connection lost,
\* or one the store rejects, raises: the exception leaves import_job's body
\* and the transaction is aborted
Raise(c) == [c EXCEPT !.exc = TRUE, !.txn = IF @ = "lost" THEN "lost" ELSE "aborted"]

----------------------------------------------------------------------------
(* EntityResolver: the four get-or-create methods.                         *)
(* c is the migrator with its connection: [db, txn, seq, cache, stats,     *)
(* exc]; exc is set once an exception has left the statement that raised   *)
(* it. Each method yields [c |-> the migrator afterwards, id |-> the id    *)
(* returned (0 for None)].                                                 *)

get_or_create_skill_category(c, category_name) ==
    IF category_name \in DOMAIN c.cache.skill_category
    THEN [c |-> c, id |-> c.cache.skill_category[category_name]]
    ELSE IF c.txn # "ok" THEN [c |-> Raise(c), id |-> 0]
    ELSE LET result == {r \in c.db.skill_categories : r.name = category_name}
             category_id == IF result # {} THEN FetchId(result)
                            ELSE c.seq.skill_categories + 1
             c1 == IF result # {} THEN c
                   ELSE [c EXCEPT
                           !.db.skill_categories =
                               @ \cup {[id |-> category_id, name |-> category_name]},
                           !.seq.skill_categories = category_id,
                           !.stats.skills_created = @ + 1]
         IN [c |-> [c1 EXCEPT !.cache.skill_category = Put(@, category_name, category_id)],
             id |-> category_id]

\* get_or_create_skill once the category is resolved: lookup, insert, cache
\* the lookup by name alone, whatever the category
skill_in_any_category(cat, skill_name, category_name) ==
    IF cat.c.exc THEN [c |-> cat.c, id |-> 0]
    ELSE IF cat.c.txn # "ok" THEN [c |-> Raise(cat.c), id |-> 0]
    ELSE LET result == {r \in cat.c.db.skills : r.name = skill_name}
             skill_id == IF result # {} THEN FetchId(result) ELSE cat.c.seq.skills + 1
         IN [c |-> [cat.c EXCEPT
                      !.db.skills = IF result # {} THEN @
                                    ELSE @ \cup {[id |-> skill_id, name |-> skill_name,
                                                  category_id |-> cat.id]},
                      !.seq.skills = IF result # {} THEN @ ELSE skill_id,
                      !.cache.skill = Put(@, <<skill_name, category_name>>, skill_id)],
             id |-> skill_id]

skill_in_category(cat, skill_name, category_name) ==
    IF cat.c.exc THEN [c |-> cat.c, id |-> 0]
    ELSE IF cat.c.txn # "ok" THEN [c |-> Raise(cat.c), id |-> 0]
    ELSE LET result == {r \in cat.c.db.skills :
                           r.name = skill_name /\ r.category_id = cat.id}
             skill_id == IF result # {} THEN FetchId(result) ELSE cat.c.seq.skills + 1
         IN [c |-> [cat.c EXCEPT
                      !.db.skills = IF result # {} THEN @
                                    ELSE @ \cup {[id |-> skill_id, name |-> skill_name,
                                                  category_id |-> cat.id]},
                      !.seq.skills = IF result # {} THEN @ ELSE skill_id,
                      !.cache.skill = Put(@, <<skill_name, category_name>>, skill_id)],
             id |-> skill_id]

\* the resolver without the test of lines 98-99
get_or_create_skill_unchecked(c, raw_name, category_name) ==
    IF <<strip(raw_name), category_name>> \in DOMAIN c.cache.skill
    THEN [c |-> c, id |-> c.cache.skill[<<strip(raw_name), category_name>>]]
    ELSE skill_in_category(get_or_create_skill_category(c, category_name),
                           strip(raw_name), category_name)

get_or_create_skill(c, raw_name, category_name) ==
    IF raw_name = <<>> \/ strip(raw_name) = <<>> THEN [c |-> c, id |-> 0]
    ELSE IF <<strip(raw_name), category_name>> \in DOMAIN c.cache.skill
    THEN [c |-> c, id |-> c.cache.skill[<<strip(raw_name), category_name>>]]
    ELSE skill_in_category(get_or_create_skill_category(c, category_name),
                           strip(raw_name), category_name)

\* mutant: the resolver inserts without looking the name up in the store
get_or_create_company_unread(c, row) ==
    LET company_name == row.company_name
    IN IF company_name = "" \/ company_name = "Unknown" THEN [c |-> c, id |-> 0]
       ELSE IF company_name \in DOMAIN c.cache.company
       THEN [c |-> c, id |-> c.cache.company[company_name]]
       ELSE IF c.txn # "ok" THEN [c |-> Raise(c), id |-> 0]
       ELSE [c |-> [c EXCEPT
                      !.db.companies = @ \cup {[id |-> c.seq.companies + 1,
                          name |-> company_name, short_name |-> row.short_name]},
                      !.seq.companies = @ + 1,
                      !.stats.companies_created = @ + 1,
                      !.cache.company = Put(@, company_name, c.seq.companies + 1)],
             id |-> c.seq.companies + 1]

get_or_create_company(c, row) ==
    LET company_name == row.company_name
    IN IF company_name = "" \/ company_name = "Unknown" THEN [c |-> c, id |-> 0]
       ELSE IF company_name \in DOMAIN c.cache.company
       THEN [c |-> c, id |-> c.cache.company[company_name]]
       ELSE IF c.txn # "ok" THEN [c |-> Raise(c), id |-> 0]
       ELSE LET result == {r \in c.db.companies : r.name = company_name}
                company_id == IF result # {} THEN FetchId(result) ELSE c.seq.companies + 1
                c1 == IF result # {} THEN c
                      ELSE [c EXCEPT
                              !.db.companies = @ \cup {[id |-> company_id,
                                  name |-> company_name, short_name |-> row.short_name]},
                              !.seq.companies = company_id,
                              !.stats.companies_created = @ + 1]
            IN [c |-> [c1 EXCEPT !.cache.company = Put(@, company_name, company_id)],
                id |-> company_id]

\* the (city, state, country) key get_or_create_location derives from one
\* location description
location_key(location_str, is_remote) ==
    LET parts == split(location_str)
        comma == location_str # <<>> /\ HasComma(location_str)
        city  == IF comma THEN strip(parts[1])
                 ELSE IF is_remote THEN <<"R", "e", "m", "o", "t", "e">>
                 ELSE <<"U", "n", "k", "n", "o", "w", "n">>
        state == IF comma THEN strip(parts[2]) ELSE None
    IN <<city, state, "USA">>

\* the resolver without its cache: every call looks the key up in the store
get_or_create_location_uncached(c, location_str, is_remote) ==
    LET key == location_key(location_str, is_remote)
    IN IF c.txn # "ok" THEN [c |-> Raise(c), id |-> 0]
       ELSE LET result == {r \in c.db.locations :
                              /\ SqlEq(r.city, key[1])
                              /\ SqlEq(r.state, key[2])
                              /\ r.country = key[3]}
                location_id == IF result # {} THEN FetchId(result) ELSE c.seq.locations + 1
                c1 == IF result # {} THEN c
                      ELSE [c EXCEPT
                              !.db.locations = @ \cup {[id |-> location_id, city |-> key[1],
                                  state |-> key[2], country |-> key[3]]},
                              !.seq.locations = location_id,
                              !.stats.locations_created = @ + 1]
            IN [c |-> [c1 EXCEPT !.cache.location = Put(@, key, location_id)],
                id |-> location_id]

get_or_create_location(c, location_str, is_remote) ==
    LET key == location_key(location_str, is_remote)
    IN IF key \in DOMAIN c.cache.location THEN [c |-> c, id |-> c.cache.location[key]]
       ELSE IF c.txn # "ok" THEN [c |-> Raise(c), id |-> 0]
       ELSE LET result == {r \in c.db.locations :
                              /\ SqlEq(r.city, key[1])
                              /\ SqlEq(r.state, key[2])
                              /\ r.country = key[3]}
                location_id == IF result # {} THEN FetchId(result) ELSE c.seq.locations + 1
                c1 == IF result # {} THEN c
                      ELSE [c EXCEPT
                              !.db.locations = @ \cup {[id |-> location_id, city |-> key[1],
                                  state |-> key[2], country |-> key[3]]},
                              !.seq.locations = location_id,
                              !.stats.locations_created = @ + 1]
            IN [c |-> [c1 EXCEPT !.cache.location = Put(@, key, location_id)],
                id |-> location_id]

----------------------------------------------------------------------------
(* JobUpserter and RelationLinker: import_job *)

Ids(rows) == {r.id : r \in rows}

\* the rows of a link table
Pairs(table) == {table[k] : k \in 1..Len(table)}

\* mutant: the link replaces the links the job had
InsertLink_replacing(table, pair) ==
    SelectSeq(table, LAMBDA p : p[1] # pair[1]) \o <<pair>>

\* the composite key of a link table: a row with the same (job_id, entity id)
\* conflicts
LinkConflict(table, pair) == \E k \in 1..Len(table) : table[k] = pair

\* mutant: a plain INSERT, the conflict clause left out of the statement
InsertLink_plain(table, pair) == Append(table, pair)

\* INSERT INTO <link table> ... ON CONFLICT DO NOTHING
InsertLink(table, pair) ==
    IF LinkConflict(table, pair) THEN table ELSE Append(table, pair)

\* row.get("is_remote", "").lower() == "true"
IsRemote(row) == lower(row.is_remote) = "true"

\* pub_date if pub_date else None
PubDate(row) == IF row.publication_date = "" THEN NoneS ELSE row.publication_date

\* mutant: the lookup by external id finds nothing
existing_job_missed(tables, external_job_id) == {}

\* SELECT id FROM jobs WHERE external_job_id = %s
existing_job(tables, external_job_id) ==
    {j \in tables.jobs : j.external_job_id = external_job_id}

\* mutant: the UPDATE leaves the status as it is
updated_job_keeps_status(j, row, company_id, ts) ==
    [j EXCEPT !.title = row.name,
              !.company_id = company_id,
              !.is_remote = IsRemote(row),
              !.publication_date = PubDate(row),
              !.fetched_at = ts,
              !.updated_at = ts,
              !.last_seen_at = ts]

\* mutant: the UPDATE refreshes the timestamps and the status only
updated_job_keeps_fields(j, row, company_id, ts) ==
    [j EXCEPT !.fetched_at = ts,
              !.updated_at = ts,
              !.status = "open",
              !.last_seen_at = ts]

\* the row the UPDATE of import_job leaves
updated_job(j, row, company_id, ts) ==
    [j EXCEPT !.title = row.name,
              !.company_id = company_id,
              !.is_remote = IsRemote(row),
              !.publication_date = PubDate(row),
              !.fetched_at = ts,
              !.updated_at = ts,
              !.status = "open",
              !.last_seen_at = ts]

\* mutant: the INSERT leaves the status to a column default of closed
inserted_job_closed(job_id, row, company_id, ts, now) ==
    [id |-> job_id,
     external_job_id |-> row.id,
     title |-> row.name,
     company_id |-> company_id,
     is_remote |-> IsRemote(row),
     publication_date |-> PubDate(row),
     fetched_at |-> ts,
     last_seen_at |-> ts,
     status |-> "closed",
     created_at |-> now,
     updated_at |-> now]

\* the row the INSERT of import_job adds (created_at and updated_at default
\* to the store's current time)
inserted_job(job_id, row, company_id, ts, now) ==
    [id |-> job_id,
     external_job_id |-> row.id,
     title |-> row.name,
     company_id |-> company_id,
     is_remote |-> IsRemote(row),
     publication_date |-> PubDate(row),
     fetched_at |-> ts,
     last_seen_at |-> ts,
     status |-> "open",
     created_at |-> now,
     updated_at |-> now]

\* the UPDATE of an existing job, or the INSERT of a new one
upsert_job(c, row, company_id, ts, now) ==
    IF c.txn # "ok" THEN [c |-> Raise(c), id |-> 0]
    ELSE LET existing == existing_job(c.db, row.id)
             job_id == IF existing # {} THEN FetchId(existing) ELSE c.seq.jobs + 1
             fk_ok  == company_id \in Ids(c.db.companies)
         IN IF ~ValidTimestamp(PubDate(row)) THEN [c |-> Raise(c), id |-> 0]
            ELSE IF existing # {}
            THEN IF ~fk_ok THEN [c |-> Raise(c), id |-> 0]
                 ELSE [c |-> [c EXCEPT
                         !.db.jobs = {IF j.id = job_id
                                      THEN updated_job(j, row, company_id, ts)
                                      ELSE j : j \in c.db.jobs},
                         !.stats.jobs_updated = @ + 1],
                       id |-> job_id]
            ELSE IF ~fk_ok THEN [c |-> Raise([c EXCEPT !.seq.jobs = job_id]), id |-> 0]
                 ELSE [c |-> [c EXCEPT
                         !.db.jobs = @ \cup
                             {inserted_job(job_id, row, company_id, ts, now)},
                         !.seq.jobs = job_id,
                         !.stats.jobs_imported = @ + 1],
                       id |-> job_id]

\* INSERT INTO job_locations of the location just resolved (if location_id:)
link_location(loc, job_id) ==
    IF loc.c.exc \/ loc.id = 0 THEN loc.c
    ELSE IF loc.id \notin Ids(loc.c.db.locations) \/ job_id \notin Ids(loc.c.db.jobs)
    THEN Raise(loc.c)
    ELSE [loc.c EXCEPT !.db.job_locations = InsertLink(@, <<job_id, loc.id>>)]

\* for job_city in job_cities: get or create the location and link it
RECURSIVE link_locations(_, _, _, _)
link_locations(c, job_id, job_cities, is_remote) ==
    IF c.exc \/ job_cities = <<>> THEN c
    ELSE link_locations(
             link_location(get_or_create_location(c, Head(job_cities), is_remote), job_id),
             job_id, Tail(job_cities), is_remote)

\* INSERT INTO job_skills of the skill just resolved (if skill_id:)
link_skill(sk, job_id) ==
    IF sk.c.exc \/ sk.id = 0 THEN sk.c
    ELSE IF sk.id \notin Ids(sk.c.db.skills) \/ job_id \notin Ids(sk.c.db.jobs)
    THEN Raise(sk.c)
    ELSE [sk.c EXCEPT !.db.job_skills = InsertLink(@, <<job_id, sk.id>>),
                      !.stats.job_skills_created = @ + 1]

\* for skill_name in skills_list: get or create the skill and link it
RECURSIVE link_skills(_, _, _, _)
link_skills(c, job_id, skills_list, category) ==
    IF c.exc \/ skills_list = <<>> THEN c
    ELSE link_skills(link_skill(get_or_create_skill(c, Head(skills_list), category), job_id),
                     job_id, Tail(skills_list), category)

skill_categories ==
    <<"Languages", "Frameworks_Libs", "Tools_Infrastructure", "Concepts", "Soft_Skills">>

\* for category in skill_categories: if the row has the column, link its skills
RECURSIVE link_categories(_, _, _, _)
link_categories(c, job_id, row, categories) ==
    IF c.exc \/ categories = <<>> THEN c
    ELSE link_categories(
             IF Head(categories) \in DOMAIN row.skills
             THEN link_skills(c, job_id, row.skills[Head(categories)], Head(categories))
             ELSE c,
             job_id, row, Tail(categories))

\* the locations import_job links: those listed, or "Remote" for a remote job
\* that lists none
job_cities_of(row) ==
    IF row.locations = <<>> /\ IsRemote(row)
    THEN << <<"R", "e", "m", "o", "t", "e">> >>
    ELSE row.locations

\* the end of import_job: return True, or the except clause
import_result(c) ==
    IF c.exc THEN [c |-> [c EXCEPT !.exc = FALSE, !.stats.errors = @ + 1], ret |-> FALSE]
    ELSE [c |-> c, ret |-> TRUE]

\* import_job after the upsert: the location links, then the skill links
import_links(up, row) ==
    import_result(
        link_categories(
            link_locations(up.c, up.id, job_cities_of(row), IsRemote(row)),
            up.id, row, skill_categories))

\* import_job after get_or_create_company
import_for_company(co, row, ts, now) ==
    IF ~co.c.exc /\ co.id = 0 THEN [c |-> co.c, ret |-> FALSE]
    ELSE import_links(IF co.c.exc THEN [c |-> co.c, id |-> 0]
                      ELSE upsert_job(co.c, row, co.id, ts, now),
                      row)

\* DatabaseMigrator.import_job: [c |-> the migrator afterwards, ret |-> the
\* value returned]
import_job(c, row, ts, now) ==
    IF row.id = "" THEN [c |-> c, ret |-> FALSE]
    ELSE import_for_company(get_or_create_company(c, row), row, ts, now)

----------------------------------------------------------------------------
(* parse_salary. A salary text is a character sequence, or None; a parsed  *)
(* bound is a number, or NoNumber for Python's None.                       *)

NoNumber == -1

Digits == {"0", "1", "2", "3", "4", "5", "6", "7", "8", "9"}

DigitValue(ch) ==
    CASE ch = "0" -> 0 [] ch = "1" -> 1 [] ch = "2" -> 2 [] ch = "3" -> 3 [] ch = "4" -> 4
      [] ch = "5" -> 5 [] ch = "6" -> 6 [] ch = "7" -> 7 [] ch = "8" -> 8 [] ch = "9" -> 9

\* str.split(sep): the pieces between the occurrences of sep, in order
RECURSIVE split_on(_, _)
split_on(s, sep) ==
    IF \A k \in 1..Len(s) : s[k] # sep THEN <<s>>
    ELSE LET first == CHOOSE k \in 1..Len(s) :
                          s[k] = sep /\ \A j \in 1..(k - 1) : s[j] # sep
         IN <<SubSeq(s, 1, first - 1)>> \o split_on(SubSeq(s, first + 1, Len(s)), sep)

\* str.replace(ch, "")
remove(s, ch) == SelectSeq(s, LAMBDA x : x # ch)

\* mutant: the thousands separators are left in the text
clean_number_keeps_commas(part) == strip(remove(part, "$"))

\* part.replace("$", "").replace(",", "").strip()
clean_number(part) == strip(remove(remove(part, "$"), ","))

\* float(t) raises ValueError unless t is a numeral (here: decimal digits)
IsNumeral(t) == t # <<>> /\ \A k \in 1..Len(t) : t[k] \in Digits

\* float(t) for a numeral t
RECURSIVE float(_)
float(t) ==
    IF t = <<>> THEN 0 ELSE 10 * float(SubSeq(t, 1, Len(t) - 1)) + DigitValue(t[Len(t)])

\* the try block of parse_salary: the exception it raises ("" for none) and
\* the pair it returns
salary_of_parts(parts) ==
    IF ~IsNumeral(clean_number(parts[1]))
    THEN [exc |-> "ValueError", value |-> <<NoNumber, NoNumber>>]
    ELSE IF Len(parts) > 1 /\ ~IsNumeral(clean_number(parts[2]))
    THEN [exc |-> "ValueError", value |-> <<NoNumber, NoNumber>>]
    ELSE [exc |-> "",
          value |-> <<float(clean_number(parts[1])),
                      IF Len(parts) > 1 THEN float(clean_number(parts[2]))
                      ELSE NoNumber>>]

\* except (ValueError, IndexError): return None, None
salary_caught(tried) ==
    IF tried.exc \in {"ValueError", "IndexError"}
    THEN [exc |-> "", value |-> <<NoNumber, NoNumber>>]
    ELSE tried

\* DatabaseMigrator.parse_salary: the pair returned, exc naming an exception
\* that leaves the method
parse_salary(text) ==
    IF text = None \/ text = <<>> \/ strip(text) = <<>>
    THEN [exc |-> "", value |-> <<NoNumber, NoNumber>>]
    ELSE salary_caught(salary_of_parts(split_on(text, "-")))

----------------------------------------------------------------------------
(* save_google_jobs_to_db: the second ingestion path. c is the function's  *)
(* connection, caches and stats, shaped as the migrator's.                 *)

LowerCh(ch) ==
    CASE ch = "A" -> "a" [] ch = "B" -> "b" [] ch = "R" -> "r" [] ch = "E" -> "e"
      [] ch = "M" -> "m" [] ch = "O" -> "o" [] ch = "T" -> "t" [] OTHER -> ch

\* str.lower() on text modelled as a character sequence
lower_text(s) == [k \in 1..Len(s) |-> LowerCh(s[k])]

\* w in s
Contains(s, w) ==
    \E k \in 1..(Len(s) - Len(w) + 1) : SubSeq(s, k, k + Len(w) - 1) = w

RemoteWord == <<"r", "e", "m", "o", "t", "e">>

\* _parse_google_location: 'Austin, TX' gives (city, state)
parse_google_location(location_str) ==
    IF location_str = None \/ location_str = <<>>
    THEN <<<<"U", "n", "k", "n", "o", "w", "n">>, None>>
    ELSE <<strip(split(location_str)[1]),
           IF Len(split(location_str)) > 1 THEN strip(split(location_str)[2]) ELSE None>>

\* external_id = f"google_{job.get('job_id', '')}"
google_external_id(job) == "google_" \o job.job_id

google_get_or_create_company(c, name) ==
    IF name = "" THEN [c |-> c, id |-> 0]
    ELSE IF name \in DOMAIN c.cache.company THEN [c |-> c, id |-> c.cache.company[name]]
    ELSE IF c.txn # "ok" THEN [c |-> Raise(c), id |-> 0]
    ELSE LET result == {r \in c.db.companies : r.name = name}
             cid == IF result # {} THEN FetchId(result) ELSE c.seq.companies + 1
         IN [c |-> [c EXCEPT
                      !.db.companies = IF result # {} THEN @
                                       ELSE @ \cup {[id |-> cid, name |-> name,
                                                     short_name |-> NoneS]},
                      !.seq.companies = IF result # {} THEN @ ELSE cid,
                      !.stats.companies_created = IF result # {} THEN @ ELSE @ + 1,
                      !.cache.company = Put(@, name, cid)],
             id |-> cid]

google_get_or_create_location(c, key) ==
    IF key \in DOMAIN c.cache.location THEN [c |-> c, id |-> c.cache.location[key]]
    ELSE IF c.txn # "ok" THEN [c |-> Raise(c), id |-> 0]
    ELSE LET row == {r \in c.db.locations : /\ SqlEq(r.city, key[1])
                                            /\ SqlEq(r.state, key[2])
                                            /\ r.country = key[3]}
             lid == IF row # {} THEN FetchId(row) ELSE c.seq.locations + 1
         IN [c |-> [c EXCEPT
                      !.db.locations = IF row # {} THEN @
                                       ELSE @ \cup {[id |-> lid, city |-> key[1],
                                                     state |-> key[2], country |-> key[3]]},
                      !.seq.locations = IF row # {} THEN @ ELSE lid,
                      !.stats.locations_created = IF row # {} THEN @ ELSE @ + 1,
                      !.cache.location = Put(@, key, lid)],
             id |-> lid]

google_get_or_create_skill_category(c, cat_name) ==
    IF cat_name \in DOMAIN c.cache.skill_category
    THEN [c |-> c, id |-> c.cache.skill_category[cat_name]]
    ELSE IF c.txn # "ok" THEN [c |-> Raise(c), id |-> 0]
    ELSE LET row == {r \in c.db.skill_categories : r.name = cat_name}
             cid == IF row # {} THEN FetchId(row) ELSE c.seq.skill_categories + 1
         IN [c |-> [c EXCEPT
                      !.db.skill_categories = IF row # {} THEN @
                                              ELSE @ \cup {[id |-> cid, name |-> cat_name]},
                      !.seq.skill_categories = IF row # {} THEN @ ELSE cid,
                      !.cache.skill_category = Put(@, cat_name, cid)],
             id |-> cid]

\* get_or_create_skill of save_google_jobs_to_db once the category is resolved
google_skill_in_category(cat, skill_name, category_name) ==
    IF cat.c.exc THEN [c |-> cat.c, id |-> 0]
    ELSE IF cat.c.txn # "ok" THEN [c |-> Raise(cat.c), id |-> 0]
    ELSE LET row == {r \in cat.c.db.skills : r.name = skill_name /\ r.category_id = cat.id}
             sid == IF row # {} THEN FetchId(row) ELSE cat.c.seq.skills + 1
         IN [c |-> [cat.c EXCEPT
                      !.db.skills = IF row # {} THEN @
                                    ELSE @ \cup {[id |-> sid, name |-> skill_name,
                                                  category_id |-> cat.id]},
                      !.seq.skills = IF row # {} THEN @ ELSE sid,
                      !.cache.skill = Put(@, <<skill_name, category_name>>, sid)],
             id |-> sid]

google_get_or_create_skill(c, skill_name, category_name) ==
    IF <<skill_name, category_name>> \in DOMAIN c.cache.skill
    THEN [c |-> c, id |-> c.cache.skill[<<skill_name, category_name>>]]
    ELSE google_skill_in_category(google_get_or_create_skill_category(c, category_name),
                                  skill_name, category_name)

\* is_remote of a Google job
google_is_remote(job) ==
    \/ Contains(lower_text(job.location), RemoteWord)
    \/ Contains(lower_text(job.schedule_type), RemoteWord)

\* the UPDATE or the INSERT of one Google job
google_upsert_job(c, job, company_id, ts, now) ==
    IF c.txn # "ok" THEN [c |-> Raise(c), id |-> 0]
    ELSE LET existing == {j \in c.db.jobs : j.external_job_id = google_external_id(job)}
             job_id == IF existing # {} THEN FetchId(existing) ELSE c.seq.jobs + 1
         IN IF existing # {}
            THEN [c |-> [c EXCEPT
                    !.db.jobs = {IF j.id = job_id
                                 THEN [j EXCEPT !.title = job.title,
                                                !.company_id = company_id,
                                                !.is_remote = google_is_remote(job),
                                                !.publication_date = NoneS,
                                                !.fetched_at = ts,
                                                !.updated_at = ts,
                                                !.status = "open",
                                                !.last_seen_at = ts]
                                 ELSE j : j \in c.db.jobs},
                    !.stats.jobs_updated = @ + 1],
                  id |-> job_id]
            ELSE [c |-> [c EXCEPT
                    !.db.jobs = @ \cup
                        {[id |-> job_id,
                          external_job_id |-> google_external_id(job),
                          title |-> job.title,
                          company_id |-> company_id,
                          is_remote |-> google_is_remote(job),
                          publication_date |-> NoneS,
                          fetched_at |-> ts,
                          last_seen_at |-> ts,
                          status |-> "open",
                          created_at |-> now,
                          updated_at |-> now]},
                    !.seq.jobs = job_id,
                    !.stats.jobs_imported = @ + 1],
                  id |-> job_id]

\* the location link of one Google job
google_link_location(loc, job_id) ==
    IF loc.c.exc THEN loc.c
    ELSE [loc.c EXCEPT !.db.job_locations = InsertLink(@, <<job_id, loc.id>>)]

\* the skill link of one Google job
google_link_skill(sk, job_id) ==
    IF sk.c.exc THEN sk.c
    ELSE [sk.c EXCEPT !.db.job_skills = InsertLink(@, <<job_id, sk.id>>),
                      !.stats.skill_links_created = @ + 1]

RECURSIVE google_link_skills(_, _, _, _)
google_link_skills(c, job_id, skill_list, category) ==
    IF c.exc \/ skill_list = <<>> THEN c
    ELSE google_link_skills(
             google_link_skill(google_get_or_create_skill(c, Head(skill_list), category),
                               job_id),
             job_id, Tail(skill_list), category)

\* for category, skill_list in skills_found.items()
RECURSIVE google_link_categories(_, _, _, _)
google_link_categories(c, job_id, skills_found, categories) ==
    IF c.exc \/ categories = <<>> THEN c
    ELSE google_link_categories(
             IF Head(categories) \in DOMAIN skills_found
             THEN google_link_skills(c, job_id, skills_found[Head(categories)],
                                     Head(categories))
             ELSE c,
             job_id, skills_found, Tail(categories))

\* the except clause of the loop body
google_caught(c) ==
    IF c.exc THEN [c EXCEPT !.exc = FALSE, !.stats.errors = @ + 1] ELSE c

\* the loop body after the upsert: the location link, then the skill links
google_links(up, job) ==
    IF up.c.exc THEN up.c
    ELSE google_link_categories(
             google_link_location(
                 google_get_or_create_location(
                     up.c, <<parse_google_location(job.location)[1],
                             parse_google_location(job.location)[2], "USA">>),
                 up.id),
             up.id, job.skills_found, skill_categories)

\* the loop body after get_or_create_company; a location that is None makes
\* location_str.lower() raise before any statement on jobs
google_for_company(co, job, ts, now) ==
    IF co.c.exc THEN google_caught(co.c)
    ELSE IF co.id = 0 THEN [co.c EXCEPT !.stats.errors = @ + 1]
    ELSE IF job.location = None THEN [co.c EXCEPT !.stats.errors = @ + 1]
    ELSE google_caught(google_links(google_upsert_job(co.c, job, co.id, ts, now), job))

\* for job in jobs: the loop of save_google_jobs_to_db
RECURSIVE google_loop(_, _, _, _)
google_loop(c, jobs, ts, now) ==
    IF jobs = <<>> THEN c
    ELSE google_loop(
             google_for_company(google_get_or_create_company(c, Head(jobs).company_name),
                                Head(jobs), ts, now),
             Tail(jobs), ts, now)

----------------------------------------------------------------------------
(* ReconciliationPass and the connection *)

\* mutant: the UPDATE does not ask for status = 'open'
Stale_any_status(tables, ts) ==
    {j \in tables.jobs : j.last_seen_at = 0 \/ j.last_seen_at < ts}

\* mutant: the cutoff takes in the jobs stamped by the run itself
Stale_through_run(tables, ts) ==
    {j \in tables.jobs : j.status = "open" /\ (j.last_seen_at = 0 \/ j.last_seen_at <= ts)}

\* the UPDATE of mark_closed_jobs: the rows it changes
Stale(tables, ts) ==
    {j \in tables.jobs : j.status = "open" /\ (j.last_seen_at = 0 \/ j.last_seen_at < ts)}

\* mutant: the pass deletes the jobs it should close
mark_closed_jobs_deleting(tables, ts) ==
    [tables EXCEPT !.jobs = @ \ Stale(tables, ts)]

\* mutant: the pass also stamps the jobs it closes
mark_closed_jobs_stamping(tables, ts) ==
    [tables EXCEPT !.jobs = {IF j \in Stale(tables, ts)
                             THEN [j EXCEPT !.status = "closed", !.updated_at = ts,
                                            !.last_seen_at = ts]
                             ELSE j : j \in tables.jobs}]

\* the tables after the UPDATE of mark_closed_jobs
mark_closed_jobs(tables, ts) ==
    [tables EXCEPT !.jobs = {IF j \in Stale(tables, ts)
                             THEN [j EXCEPT !.status = "closed", !.updated_at = ts]
                             ELSE j : j \in tables.jobs}]

\* conn.commit(): COMMIT of an aborted transaction rolls it back
CommitDurable(tables, committed, t) == IF t = "aborted" THEN committed ELSE tables

\* rows read between two commits of the loop of migrate()
COMMIT_EVERY == 100

----------------------------------------------------------------------------
(* The rows a CSV file may hold *)

\* "A, B"
LocAB == <<"A", ",", " ", "B">>

SkillP == <<"p">>

NoSkills == [k \in {} |-> <<>>]

RowJ1 ==
    [id |-> "J1", name |-> "t1", company_id |-> "C1", company_name |-> "Acme",
     short_name |-> "ac",
     publication_date |-> "2024-01-01", is_remote |-> "false",
     locations |-> <<LocAB>>, skills |-> [k \in {"Languages"} |-> <<SkillP>>]]

\* J1 again: remote, no location and no skill listed
RowJ1Bare ==
    [id |-> "J1", name |-> "t2", company_id |-> "C1", company_name |-> "Acme",
     short_name |-> "ac",
     publication_date |-> "", is_remote |-> "True",
     locations |-> <<>>, skills |-> NoSkills]

RowJ2 ==
    [id |-> "J2", name |-> "t1", company_id |-> "C2", company_name |-> "Globex",
     short_name |-> "gl",
     publication_date |-> "2024-01-01", is_remote |-> "false",
     locations |-> <<LocAB>>, skills |-> [k \in {"Tools_Infrastructure"} |-> <<SkillP>>]]

\* a row with no id
RowBlank == [RowJ2 EXCEPT !.id = ""]

\* a row whose company is missing
RowNoCompany == [RowJ2 EXCEPT !.company_name = "Unknown"]

\* a row whose publication date the store rejects
RowBadDate == [RowJ2 EXCEPT !.publication_date = "garbage"]

Records == {RowJ1, RowJ1Bare, RowJ2, RowBadDate}

\* a row with an empty "company.id" (the company name is there)
RowNoCompanyId == [RowJ2 EXCEPT !.company_id = ""]

\* the jobs a Google Jobs search may return, skills_found being what
\* extract_skills_from_text finds in the description
GoogleJ1 ==
    [job_id |-> "g1", title |-> "t1", company_name |-> "Acme", location |-> LocAB,
     schedule_type |-> <<>>, skills_found |-> [k \in {"Languages"} |-> <<SkillP>>]]

\* a job with no job_id, working remotely
GoogleNoId ==
    [job_id |-> "", title |-> "t2", company_name |-> "Globex",
     location |-> <<"R", "e", "m", "o", "t", "e">>,
     schedule_type |-> <<>>,
     skills_found |-> [k \in {"Tools_Infrastructure"} |-> <<SkillP>>]]

\* a job with no company name
GoogleNoCompany == [GoogleJ1 EXCEPT !.company_name = ""]

\* a job whose location is None
GoogleNoLocation == [GoogleJ1 EXCEPT !.location = None]

GoogleJobs == {GoogleJ1, GoogleNoId, GoogleNoCompany, GoogleNoLocation}

\* the lists of at most MaxGoogleJobs jobs
GoogleBatches ==
    UNION {[1..n -> GoogleJobs] : n \in 1..MaxGoogleJobs}

\* rows import_job is to reject
Rejects == {RowBlank, RowNoCompany, RowNoCompanyId}

\* a row whose skill lists hold an empty and a whitespace-only name: Concepts
\* holds nothing else, Languages also holds p
RowBlankSkills ==
    [RowJ1Bare EXCEPT
       !.skills = [k \in {"Languages", "Concepts"} |->
                      IF k = "Concepts" THEN <<<<>>, <<" ", " ">>>>
                      ELSE <<<<" ">>, SkillP, <<>>>>]]

----------------------------------------------------------------------------
(* The runs *)

OpenIds(tables) == {j.external_job_id : j \in {x \in tables.jobs : x.status = "open"}}

\* the stats save_google_jobs_to_db starts from
ZeroGoogleStats ==
    [jobs_imported |-> 0, jobs_updated |-> 0, companies_created |-> 0,
     locations_created |-> 0, skill_links_created |-> 0, errors |-> 0]

NoGoogle == [jobs |-> <<>>, stats |-> ZeroGoogleStats]

\* parse_salary has not been called
Unparsed == [called |-> FALSE, exc |-> "", value |-> <<NoNumber, NoNumber>>]

\* the characters of the salary texts tried
SalaryChars == {"$", ",", "-", " ", "7", "x"}

\* "$90,000 - $120,000"
SalaryRange ==
    <<"$", "9", "0", ",", "0", "0", "0", " ", "-", " ",
      "$", "1", "2", "0", ",", "0", "0", "0">>

\* "$75000"
SalarySingle == <<"$", "7", "5", "0", "0", "0">>

\* the salary texts tried: None, every text of at most MaxSalaryLen characters,
\* and the two texts of TestParseSalary
SalaryTexts ==
    {None, SalaryRange, SalarySingle}
        \cup UNION {[1..n -> SalaryChars] : n \in 0..MaxSalaryLen}

\* located before any call
Unlocated == [called |-> FALSE, key |-> <<<<>>, None, "USA">>, google |-> <<<<>>, None>>]

\* permuted before any call
Unpermuted ==
    [called |-> FALSE, batch |-> <<>>, order |-> <<>>,
     start |-> [db |-> EmptyTables, seq |-> EmptySeqs],
     first |-> EmptyCaches, second |-> EmptyCaches]

\* replication before the script is started
NotReplicating == [sq |-> EmptyTables, at |-> "idle"]

NoPrev == [batch |-> <<>>, tables |-> EmptyTables, ts |-> 0, done |-> FALSE]

\* the store and the process before the first run
InitStore ==
    /\ clock = 0
    /\ pending = {}
    /\ durable = EmptyTables
    /\ db = EmptyTables
    /\ txn = "ok"
    /\ seq = EmptySeqs
    /\ cache = EmptyCaches
    /\ stats = ZeroStats
    /\ run_timestamp = 0
    /\ phase = "idle"
    /\ i = 0
    /\ batch = <<>>
    /\ last = [row |-> RowBlank, ret |-> FALSE]
    /\ touched = {}
    /\ atStart = EmptyTables
    /\ prev = NoPrev
    /\ nread = 0
    /\ google = NoGoogle

\* no location description has been keyed
InitLocated ==
    /\ job_city = [name |-> <<>>, is_remote |-> FALSE]
    /\ located = Unlocated

\* no batch has been imported in two orders
InitPermuted == permuted = Unpermuted

Init ==
    /\ InitStore
    /\ replication = NotReplicating
    /\ salary_str = <<>>
    /\ salary = Unparsed
    /\ InitLocated
    /\ InitPermuted

\* DatabaseMigrator.__init__: run_timestamp = datetime.now()
Construct ==
    /\ phase = "idle"
    /\ clock < MaxRuns
    /\ clock' = clock + 1
    /\ pending' = pending \cup {clock'}
    /\ UNCHANGED <<durable, db, txn, seq, cache, stats, run_timestamp, phase, i, batch,
                   last, touched, atStart, prev, nread,
                   google, salary_str, salary,
                   job_city, located, permuted,
                   replication>>

\* migrate() up to its loop: connect() and initialize_schema() of migrator ts
Connect(ts) ==
    /\ phase = "idle"
    /\ ts \in pending
    /\ pending' = pending \ {ts}
    /\ run_timestamp' = ts
    /\ cache' = EmptyCaches
    /\ stats' = ZeroStats
    /\ db' = durable
    /\ txn' = "ok"
    /\ phase' = "importing"
    /\ i' = 0
    /\ last' = [row |-> RowBlank, ret |-> FALSE]
    /\ touched' = {}
    /\ atStart' = durable
    /\ batch' = <<>>
    /\ UNCHANGED <<clock, durable, seq, prev, nread,
                   google, salary_str, salary,
                   job_city, located, permuted,
                   replication>>

\* the migrator and its connection, as import_job sees them
Migrator ==
    [db |-> db, txn |-> txn, seq |-> seq, cache |-> cache, stats |-> stats, exc |-> FALSE]

\* the state after import_job returned r for row, and after the periodic commit
AfterImport(r, row, commit) ==
    /\ seq' = r.c.seq
    /\ cache' = r.c.cache
    /\ stats' = r.c.stats
    /\ durable' = IF commit THEN CommitDurable(r.c.db, durable, r.c.txn) ELSE durable
    /\ db' = IF commit THEN CommitDurable(r.c.db, durable, r.c.txn) ELSE r.c.db
    /\ txn' = IF commit THEN "ok" ELSE r.c.txn
    /\ last' = [row |-> row, ret |-> r.ret]
    /\ touched' = IF r.ret THEN touched \cup {row.id} ELSE touched

\* one turn of the loop of migrate(): import_job(row), then the periodic commit
ImportRow(row) ==
    /\ phase = "importing"
    /\ nread < MaxRows
    /\ nread' = nread + 1
    /\ i' = i + 1
    /\ batch' = Append(batch, row)
    /\ AfterImport(import_job(Migrator, row, run_timestamp, clock), row,
                   (i + 1) % COMMIT_EVERY = 0)
    /\ UNCHANGED <<clock, pending, run_timestamp, phase, atStart, prev,
                   google, salary_str, salary,
                   job_city, located, permuted,
                   replication>>

\* the loop of migrate() ends: the final conn.commit()
FinalCommit ==
    /\ phase = "importing"
    /\ txn # "lost"
    /\ durable' = CommitDurable(db, durable, txn)
    /\ db' = CommitDurable(db, durable, txn)
    /\ txn' = "ok"
    /\ phase' = "committed"
    /\ UNCHANGED <<clock, pending, seq, cache, stats, run_timestamp, i, batch, last,
                   touched, atStart, prev, nread,
                   google, salary_str, salary,
                   job_city, located, permuted,
                   replication>>

\* DatabaseMigrator.mark_closed_jobs: the UPDATE, rowcount, commit
MarkClosedJobs ==
    /\ phase \in {"committed", "reconciled"}
    /\ db' = mark_closed_jobs(db, run_timestamp)
    /\ durable' = db'
    /\ stats' = [stats EXCEPT !.jobs_closed = Cardinality(Stale(db, run_timestamp))]
    /\ phase' = "reconciled"
    /\ UNCHANGED <<clock, pending, txn, seq, cache, run_timestamp, i, batch, last,
                   touched, atStart, prev, nread,
                   google, salary_str, salary,
                   job_city, located, permuted,
                   replication>>

\* migrate() ends: conn.close(); the migrator is dropped
Close ==
    /\ phase \in {"reconciled", "unreconciled"}
    /\ phase' = "idle"
    /\ cache' = EmptyCaches
    /\ stats' = ZeroStats
    /\ run_timestamp' = 0
    /\ i' = 0
    /\ last' = [row |-> RowBlank, ret |-> FALSE]
    /\ touched' = {}
    /\ atStart' = EmptyTables
    /\ batch' = <<>>
    /\ UNCHANGED <<clock, pending, durable, db, txn, seq, prev, nread,
                   google, salary_str, salary,
                   job_city, located, permuted,
                   replication>>

\* a failure leaves the loop of migrate(): the connection is lost with its
\* open transaction, mark_closed_jobs is not reached
Interrupt ==
    /\ phase = "importing"
    /\ db' = durable
    /\ txn' = "ok"
    /\ phase' = "idle"
    /\ cache' = EmptyCaches
    /\ stats' = ZeroStats
    /\ run_timestamp' = 0
    /\ i' = 0
    /\ last' = [row |-> RowBlank, ret |-> FALSE]
    /\ touched' = {}
    /\ atStart' = EmptyTables
    /\ batch' = <<>>
    /\ UNCHANGED <<clock, pending, durable, seq, prev, nread,
                   google, salary_str, salary,
                   job_city, located, permuted,
                   replication>>

Next ==
    \/ Construct
    \/ \E ts \in pending : Connect(ts)
    \/ \E row \in Records : ImportRow(row)
    \/ FinalCommit
    \/ MarkClosedJobs
    \/ Close
    \/ Interrupt

Spec == Init /\ [][Next]_vars

----------------------------------------------------------------------------
(* Runs one after the other, each constructed when the one before it has   *)
(* ended, with the batch and the result of the latest run kept for         *)
(* comparison with the next.                                               *)

\* DatabaseMigrator() followed at once by migrate(), as in run_collection
ConstructNext ==
    /\ pending = {}
    /\ Construct

\* Close, remembering what the run read and what it left
CloseRecorded ==
    /\ phase = "reconciled"
    /\ phase' = "idle"
    /\ cache' = EmptyCaches
    /\ stats' = ZeroStats
    /\ run_timestamp' = 0
    /\ i' = 0
    /\ last' = [row |-> RowBlank, ret |-> FALSE]
    /\ touched' = {}
    /\ atStart' = EmptyTables
    /\ batch' = <<>>
    /\ prev' = [batch |-> batch, tables |-> durable, ts |-> run_timestamp, done |-> TRUE]
    /\ UNCHANGED <<clock, pending, durable, db, txn, seq, nread,
                   google, salary_str, salary,
                   job_city, located, permuted,
                   replication>>

NextRerun ==
    \/ ConstructNext
    \/ \E ts \in pending : Connect(ts)
    \/ \E row \in Records : ImportRow(row)
    \/ FinalCommit
    \/ MarkClosedJobs
    \/ CloseRecorded

SpecRerun == Init /\ [][NextRerun]_vars

\* run after run as in run_collection, the batches holding rows to reject too
NextBatch ==
    \/ ConstructNext
    \/ \E ts \in pending : Connect(ts)
    \/ \E row \in Records \cup Rejects \cup {RowBlankSkills} : ImportRow(row)
    \/ FinalCommit
    \/ MarkClosedJobs
    \/ Close

SpecBatch == Init /\ [][NextBatch]_vars

\* save_google_jobs_to_db once its loop has ended: conn.commit(), conn.close(),
\* return stats
GoogleDone(c, jobs) ==
    /\ durable' = CommitDurable(c.db, durable, c.txn)
    /\ db' = CommitDurable(c.db, durable, c.txn)
    /\ seq' = c.seq
    /\ google' = [jobs |-> jobs, stats |-> c.stats]

\* save_google_jobs_to_db(jobs): connect, run_timestamp = datetime.now(), the
\* loop, one commit, close
SaveGoogleJobs(jobs) ==
    /\ phase = "idle"
    /\ clock < MaxRuns
    /\ clock' = clock + 1
    /\ GoogleDone(google_loop([db |-> durable, txn |-> "ok", seq |-> seq,
                               cache |-> EmptyCaches, stats |-> ZeroGoogleStats,
                               exc |-> FALSE],
                              jobs, clock + 1, clock + 1),
                  jobs)
    /\ UNCHANGED <<pending, txn, cache, stats, run_timestamp, phase, i, batch, last,
                   touched, atStart, prev, nread, salary_str, salary,
                   job_city, located, permuted,
                   replication>>

\* both ingestion paths against one store, one run at a time
NextGoogle ==
    \/ ConstructNext
    \/ \E ts \in pending : Connect(ts)
    \/ \E row \in {RowJ1, RowJ2, RowBlank} : ImportRow(row)
    \/ FinalCommit
    \/ MarkClosedJobs
    \/ Close
    \/ \E jobs \in GoogleBatches : SaveGoogleJobs(jobs)

SpecGoogle == Init /\ [][NextGoogle]_vars

\* any salary text, parse_salary not called yet
InitSalary ==
    /\ InitStore
    /\ replication = NotReplicating
    /\ salary_str \in SalaryTexts
    /\ salary = Unparsed
    /\ InitLocated
    /\ InitPermuted

\* one call parse_salary(salary_str)
ParseSalary ==
    /\ ~salary.called
    /\ salary' = [called |-> TRUE,
                  exc |-> parse_salary(salary_str).exc,
                  value |-> parse_salary(salary_str).value]
    /\ UNCHANGED <<clock, pending, durable, db, txn, seq, cache, stats, run_timestamp,
                   phase, i, batch, last, touched, atStart, prev, nread, google,
                   salary_str, job_city, located, permuted,
                   replication>>

SpecSalary == InitSalary /\ [][ParseSalary]_vars

----------------------------------------------------------------------------
(* Runs under faults of the environment: another writer committing between *)
(* two statements of the migrator, the connection lost, a statement of     *)
(* mark_closed_jobs refused.                                               *)

\* the company row another writer (save_google_jobs_to_db, get_or_create_company)
\* commits under the name of row
RivalCompany(c, row) ==
    [id |-> c.seq.companies + 1, name |-> row.company_name, short_name |-> NoneS]

\* get_or_create_company when the other writer commits its row after the
\* SELECT of lines 137-141 found none: the INSERT of lines 146-152 breaks the
\* unique key of companies.name and raises, nothing in the method catches it
get_or_create_company_raced(c, row) ==
    [c |-> Raise([c EXCEPT !.db.companies = @ \cup {RivalCompany(c, row)},
                           !.seq.companies = @ + 2]),
     id |-> 0]

\* the state after import_job returned r for row while the other writer
\* committed its company row
AfterRacedImport(r, row) ==
    /\ seq' = r.c.seq
    /\ cache' = r.c.cache
    /\ stats' = r.c.stats
    /\ durable' = [durable EXCEPT !.companies = @ \cup {RivalCompany(Migrator, row)}]
    /\ db' = r.c.db
    /\ txn' = r.c.txn
    /\ last' = [row |-> row, ret |-> r.ret]
    /\ touched' = IF r.ret THEN touched \cup {row.id} ELSE touched

\* one turn of the loop of migrate() in which import_job(row) loses the race
\* for the company of row
ImportRowRaced(row) ==
    /\ phase = "importing"
    /\ nread < MaxRows
    /\ txn = "ok"
    /\ row.id # ""
    /\ row.company_name \notin {"", "Unknown"}
    /\ row.company_name \notin DOMAIN cache.company
    /\ \A r \in db.companies : r.name # row.company_name
    /\ nread' = nread + 1
    /\ i' = i + 1
    /\ batch' = Append(batch, row)
    /\ AfterRacedImport(import_for_company(get_or_create_company_raced(Migrator, row),
                                           row, run_timestamp, clock),
                        row)
    /\ UNCHANGED <<clock, pending, run_timestamp, phase, atStart, prev,
                   google, salary_str, salary,
                   job_city, located, permuted,
                   replication>>

\* one turn of the loop of migrate() in which the connection is lost as
\* import_job(row) sends its first statement: the statement raises, and so does
\* every later one
ImportRowConnectionLost(row) ==
    /\ phase = "importing"
    /\ nread < MaxRows
    /\ txn # "lost"
    /\ row.id # ""
    /\ row.company_name \notin {"", "Unknown"}
    /\ nread' = nread + 1
    /\ i' = i + 1
    /\ batch' = Append(batch, row)
    /\ AfterImport(import_job([Migrator EXCEPT !.txn = "lost", !.db = durable],
                              row, run_timestamp, clock),
                   row, FALSE)
    /\ UNCHANGED <<clock, pending, run_timestamp, phase, atStart, prev,
                   google, salary_str, salary,
                   job_city, located, permuted,
                   replication>>

\* conn.commit() on the lost connection raises out of migrate()
CommitRaises ==
    /\ txn = "lost"
    /\ Interrupt

\* mutant: mark_closed_jobs without its try
mark_closed_jobs_reraises == FALSE

\* the except clause of mark_closed_jobs catches Exception and prints it
mark_closed_jobs_catches == TRUE

\* DatabaseMigrator.mark_closed_jobs when its UPDATE raises: rowcount and
\* conn.commit() are not reached
MarkClosedJobsFails ==
    /\ phase = "committed"
    /\ txn' = "aborted"
    /\ phase' = IF mark_closed_jobs_catches THEN "unreconciled" ELSE "idle"
    /\ UNCHANGED <<clock, pending, durable, db, seq, cache, stats, run_timestamp, i,
                   batch, last, touched, atStart, prev, nread,
                   google, salary_str, salary,
                   job_city, located, permuted,
                   replication>>

NextFaults ==
    \/ ConstructNext
    \/ \E ts \in pending : Connect(ts)
    \/ \E row \in {RowJ1, RowJ2} : ImportRow(row)
    \/ \E row \in {RowJ1, RowJ2} : ImportRowRaced(row)
    \/ \E row \in {RowJ1, RowJ2} : ImportRowConnectionLost(row)
    \/ CommitRaises
    \/ FinalCommit
    \/ MarkClosedJobs
    \/ MarkClosedJobsFails
    \/ Close

SpecFaults == Init /\ [][NextFaults]_vars

----------------------------------------------------------------------------
(* Runs over a CSV file long enough for the periodic commit of migrate(),  *)
(* each run reading the file from its first row.                           *)

\* the file: the remote row again and again, then a row of another company
CsvFile == [k \in 1..MaxFileRows |-> IF k < MaxFileRows THEN RowJ1Bare ELSE RowJ2]

\* one turn of the loop of migrate() over the file
ImportFileRow ==
    /\ phase = "importing"
    /\ i < MaxFileRows
    /\ i' = i + 1
    /\ batch' = Append(batch, CsvFile[i + 1])
    /\ AfterImport(import_job(Migrator, CsvFile[i + 1], run_timestamp, clock),
                   CsvFile[i + 1], (i + 1) % COMMIT_EVERY = 0)
    /\ UNCHANGED <<clock, pending, run_timestamp, phase, atStart, prev, nread,
                   google, salary_str, salary,
                   job_city, located, permuted,
                   replication>>

\* the file is exhausted: the final conn.commit()
FinalCommitOfFile ==
    /\ i = MaxFileRows
    /\ FinalCommit

NextResume ==
    \/ ConstructNext
    \/ \E ts \in pending : Connect(ts)
    \/ ImportFileRow
    \/ Interrupt
    \/ FinalCommitOfFile
    \/ MarkClosedJobs
    \/ CloseRecorded

SpecResume == Init /\ [][NextResume]_vars

\* the loop of migrate() over rows, as the connection sees the store, up to
\* the first statement that fails
RECURSIVE import_rows(_, _, _, _)
import_rows(c, rows, ts, now) ==
    IF rows = <<>> \/ c.txn # "ok" THEN c
    ELSE import_rows(import_job(c, Head(rows), ts, now).c, Tail(rows), ts, now)

\* the tables one whole run of migrate() leaves, started at ts on tables with
\* the sequences at seqs, when no statement fails (its commits then make
\* durable what the connection sees)
migrate(tables, seqs, rows, ts) ==
    mark_closed_jobs(
        import_rows([db |-> tables, txn |-> "ok", seq |-> seqs, cache |-> EmptyCaches,
                     stats |-> ZeroStats, exc |-> FALSE],
                    rows, ts, ts).db,
        ts)

----------------------------------------------------------------------------
(* Location descriptions keyed one at a time *)

RemoteText == <<"R", "e", "m", "o", "t", "e">>

LocationChars == {"a", ",", " "}

\* the descriptions tried: the remote marker and every text of at most
\* MaxLocationLen characters
LocationTexts == {RemoteText} \cup UNION {[1..n -> LocationChars] : n \in 0..MaxLocationLen}

InitLocation ==
    /\ InitStore
    /\ replication = NotReplicating
    /\ salary_str = <<>>
    /\ salary = Unparsed
    /\ job_city \in [name : LocationTexts, is_remote : BOOLEAN]
    /\ located = Unlocated
    /\ InitPermuted

\* the key get_or_create_location([job_city], is_remote) looks up, and the
\* (city, state) _parse_google_location gives for the same text
KeyLocation ==
    /\ ~located.called
    /\ located' = [called |-> TRUE,
                   key |-> location_key(job_city.name, job_city.is_remote),
                   google |-> parse_google_location(job_city.name)]
    /\ UNCHANGED <<clock, pending, durable, db, txn, seq, cache, stats, run_timestamp,
                   phase, i, batch, last, touched, atStart, prev, nread, google,
                   salary_str, salary, job_city, permuted,
                   replication>>

SpecLocation == InitLocation /\ [][KeyLocation]_vars

----------------------------------------------------------------------------
(* One batch imported in two orders by two migrators on the same store *)

\* a migrator just connected to tables, the sequences at seqs
Connected(tables, seqs) ==
    [db |-> tables, txn |-> "ok", seq |-> seqs, cache |-> EmptyCaches,
     stats |-> ZeroStats, exc |-> FALSE]

\* the stores the batch is imported on: the empty one, and the one a run over
\* RowJ1 has left
StartStores ==
    {[db |-> EmptyTables, seq |-> EmptySeqs],
     [db |-> import_rows(Connected(EmptyTables, EmptySeqs), <<RowJ1>>, 1, 1).db,
      seq |-> import_rows(Connected(EmptyTables, EmptySeqs), <<RowJ1>>, 1, 1).seq]}

\* the orders in which n rows can be read
Orders(n) == {f \in [1..n -> 1..n] : \A a, b \in 1..n : f[a] = f[b] => a = b}

\* the rows of the batch in the given order
Reordered(rows, order) == [k \in 1..Len(rows) |-> rows[order[k]]]

InitOrder ==
    /\ InitStore
    /\ replication = NotReplicating
    /\ salary_str = <<>>
    /\ salary = Unparsed
    /\ InitLocated
    /\ \E n \in 0..MaxRows : \E rows \in [1..n -> {RowJ1, RowJ1Bare, RowJ2}] :
           \E order \in Orders(n) : \E start \in StartStores :
               permuted = [Unpermuted EXCEPT !.batch = rows, !.order = order,
                                             !.start = start]

\* two migrators import the batch on the same store, one in the order of the
\* file, one in the other order; the caches hold what each key resolved to
ImportBothOrders ==
    /\ ~permuted.called
    /\ permuted' =
           [permuted EXCEPT
              !.called = TRUE,
              !.first = import_rows(Connected(permuted.start.db, permuted.start.seq),
                                    permuted.batch, 2, 2).cache,
              !.second = import_rows(Connected(permuted.start.db, permuted.start.seq),
                                     Reordered(permuted.batch, permuted.order), 2, 2).cache]
    /\ UNCHANGED <<clock, pending, durable, db, txn, seq, cache, stats, run_timestamp,
                   phase, i, batch, last, touched, atStart, prev, nread, google,
                   salary_str, salary, job_city, located,
                   replication>>

SpecOrder == InitOrder /\ [][ImportBothOrders]_vars

----------------------------------------------------------------------------
(* scripts/migrate_sqlite_to_postgres.py: the contents of a SQLite file    *)
(* are copied into the PostgreSQL store. SQLite did not enforce foreign    *)
(* keys, so its rows may reference rows that are not there.                *)

TABLES_IN_ORDER ==
    <<"companies", "locations", "skill_categories", "skills", "jobs", "job_locations",
      "job_skills">>

\* the rows a SQLite file may hold, a file holding any of them
SqCompanies ==
    {[id |-> 1, name |-> "Acme", short_name |-> "ac"],
     [id |-> 2, name |-> "Globex", short_name |-> "gl"]}

SqLocations == {[id |-> 1, city |-> <<"A">>, state |-> <<"B">>, country |-> "USA"]}

SqSkillCategories == {[id |-> 1, name |-> "Languages"]}

SqSkills == {[id |-> 3, name |-> SkillP, category_id |-> 1]}

SqJob(job_id, company_id, is_remote) ==
    [id |-> job_id, external_job_id |-> IF job_id = 1 THEN "J1" ELSE "J2",
     title |-> "t1", company_id |-> company_id, is_remote |-> is_remote,
     publication_date |-> NoneS, fetched_at |-> 1, last_seen_at |-> 1,
     status |-> "open", created_at |-> 1, updated_at |-> 1]

SqJobs == {SqJob(1, 1, 0), SqJob(2, 2, 1)}

SqJobLocations == <<<<1, 1>>, <<2, 1>>>>

SqJobSkills == <<<<1, 3>>, <<2, 3>>>>

\* the rows of the link table that the file holds
Held(rows, held) == SelectSeq(rows, LAMBDA pair : pair \in held)

SqliteFiles ==
    {[companies |-> co, locations |-> lo, skill_categories |-> ca, skills |-> sk,
      jobs |-> jo, job_locations |-> Held(SqJobLocations, jl),
      job_skills |-> Held(SqJobSkills, js)] :
        co \in SUBSET SqCompanies, lo \in SUBSET SqLocations,
        ca \in SUBSET SqSkillCategories, sk \in SUBSET SqSkills, jo \in SUBSET SqJobs,
        jl \in SUBSET Pairs(SqJobLocations), js \in SUBSET Pairs(SqJobSkills)}

\* the rows of a table as inserted: is_remote of jobs converted by bool(val)
Inserted(table, rows) ==
    IF table = "jobs" THEN {[r EXCEPT !.is_remote = (@ # 0)] : r \in rows} ELSE rows

\* the table loaded after the one the script is at
TableAfter(at) ==
    IF at = "created" THEN TABLES_IN_ORDER[1]
    ELSE TABLES_IN_ORDER[1 + CHOOSE k \in 1..Len(TABLES_IN_ORDER) : TABLES_IN_ORDER[k] = at]

\* DROP TABLE of every table, then the schema of schema.sql, committed
DropAndCreate(sq) ==
    /\ phase = "idle"
    /\ replication.at = "idle"
    /\ replication' = [sq |-> sq, at |-> "created"]
    /\ durable' = EmptyTables
    /\ db' = EmptyTables
    /\ seq' = EmptySeqs
    /\ UNCHANGED <<clock, pending, txn, cache, stats, run_timestamp, phase, i, batch,
                   last, touched, atStart, prev, nread, google, salary_str, salary,
                   job_city, located, permuted>>

\* one turn of the loop over TABLES_IN_ORDER: the rows of the SQLite table are
\* inserted with their ids, foreign keys unchecked (session_replication_role =
\* 'replica'), and committed
LoadTable ==
    /\ replication.at \in {"created"} \cup {TABLES_IN_ORDER[k] : k \in 1..6}
    /\ replication' = [replication EXCEPT !.at = TableAfter(replication.at)]
    /\ durable' = [durable EXCEPT ![TableAfter(replication.at)] =
                       Inserted(TableAfter(replication.at),
                                replication.sq[TableAfter(replication.at)])]
    /\ db' = durable'
    /\ UNCHANGED <<clock, pending, txn, seq, cache, stats, run_timestamp, phase, i,
                   batch, last, touched, atStart, prev, nread, google, salary_str,
                   salary, job_city, located, permuted>>

\* the four DELETEs of orphan references
clean_orphans(tables) ==
    [tables EXCEPT
       !.job_locations = SelectSeq(@, LAMBDA pair : /\ pair[2] \in Ids(tables.locations)
                                                    /\ pair[1] \in Ids(tables.jobs)),
       !.job_skills = SelectSeq(@, LAMBDA pair : /\ pair[1] \in Ids(tables.jobs)
                                                 /\ pair[2] \in Ids(tables.skills))]

\* "Cleaning orphan references": the DELETEs, committed
CleanOrphans ==
    /\ replication.at = "job_skills"
    /\ replication' = [replication EXCEPT !.at = "cleaned"]
    /\ durable' = clean_orphans(durable)
    /\ db' = durable'
    /\ UNCHANGED <<clock, pending, txn, seq, cache, stats, run_timestamp, phase, i,
                   batch, last, touched, atStart, prev, nread, google, salary_str,
                   salary, job_city, located, permuted>>

\* the largest id of the rows
MaxId(rows) == CHOOSE m \in Ids(rows) : \A k \in Ids(rows) : k <= m

\* mutant: the sequence is left where the schema created it
reset_sequence_skipped(rows) == 0

\* setval(sequence, COALESCE((SELECT MAX(id) FROM table), 1))
reset_sequence(rows) == IF rows = {} THEN 1 ELSE MaxId(rows)

\* "Resetting sequences": setval for every serial column, committed
ResetSequences ==
    /\ replication.at = "cleaned"
    /\ replication' = [replication EXCEPT !.at = "done"]
    /\ seq' = [t \in DOMAIN seq |-> reset_sequence(durable[t])]
    /\ UNCHANGED <<clock, pending, durable, db, txn, cache, stats, run_timestamp, phase,
                   i, batch, last, touched, atStart, prev, nread, google, salary_str,
                   salary, job_city, located, permuted>>

NextReplication ==
    \/ \E sq \in SqliteFiles : DropAndCreate(sq)
    \/ LoadTable
    \/ CleanOrphans
    \/ ResetSequences

SpecReplication == Init /\ [][NextReplication]_vars

----------------------------------------------------------------------------
(* Properties *)

RowCounts(tables) ==
    <<Cardinality(tables.companies), Cardinality(tables.locations),
      Cardinality(tables.skills), Cardinality(tables.jobs)>>

\* this step is one call of import_job, which returned True
Imported == nread' = nread + 1 /\ last'.ret

\* every row this run has read was imported
AllImported == stats.errors = 0 /\ stats.jobs_imported + stats.jobs_updated = Len(batch)

\* C1: a run that reads the batch of the run completed just before it, with a
\* later timestamp, leaves no additional Company, Location, Skill or Job row
\* and reports jobs_imported = 0.
C1_RerunAddsNoRow ==
    (/\ phase = "reconciled"
     /\ prev.done
     /\ batch = prev.batch
     /\ atStart = prev.tables
     /\ run_timestamp > prev.ts)
        => /\ RowCounts(durable) = RowCounts(prev.tables)
           /\ stats.jobs_imported = 0

\* C2: the jobs table holds at most one row per external_job_id; a row keeps
\* its external_job_id; an import whose external id already has a row updates
\* that row and inserts none.
C2_OneRowPerExternalId ==
    [][/\ \A a, b \in db'.jobs : a.external_job_id = b.external_job_id => a = b
       /\ \A a \in db.jobs : \A b \in db'.jobs :
              a.id = b.id => a.external_job_id = b.external_job_id
       /\ (Imported /\ \E a \in db.jobs : a.external_job_id = last'.row.id)
              => /\ Cardinality(db'.jobs) = Cardinality(db.jobs)
                 /\ \A a \in db.jobs : a.external_job_id = last'.row.id
                        => \E b \in db'.jobs : /\ b.id = a.id
                                               /\ b.last_seen_at = run_timestamp
                                               /\ b.title = last'.row.name]_vars

\* C2 witness: a run has updated the one row a previous run inserted
C2_Witness ==
    /\ phase = "importing"
    /\ last.ret
    /\ stats.jobs_updated = 1
    /\ stats.jobs_imported = 0
    /\ Cardinality(db.jobs) = 1

\* C3: no two committed Company rows share a name, no two SkillCategory rows
\* share a name, no two Skill rows share (name, category) and no two Location
\* rows share (city, state, country), a null state included.
C3_DimensionRowsUnique ==
    /\ \A a, b \in durable.companies : a.name = b.name => a = b
    /\ \A a, b \in durable.skill_categories : a.name = b.name => a = b
    /\ \A a, b \in durable.skills :
           (a.name = b.name /\ a.category_id = b.category_id) => a = b
    /\ \A a, b \in durable.locations :
           (a.city = b.city /\ a.state = b.state /\ a.country = b.country) => a = b

\* C4: after a completed run whose rows were all imported, every job upserted
\* in the run is open and every job that was open before the run and was not
\* upserted in it is closed.
C4_StatusAfterRun ==
    (phase = "reconciled" /\ AllImported)
        => /\ \A e \in touched :
                  \E j \in durable.jobs : j.external_job_id = e /\ j.status = "open"
           /\ \A j \in durable.jobs :
                  (j.external_job_id \in OpenIds(atStart) \ touched) => j.status = "closed"

\* C5: a committed job goes from open to closed only in mark_closed_jobs,
\* which runs after the batch and its final commit (never in a run that was
\* interrupted), and never for a job import_job touched in the same run.
C5_ClosedOnlyAfterBatch ==
    [][\A j \in durable.jobs : \A k \in durable'.jobs :
           (j.id = k.id /\ j.status = "open" /\ k.status = "closed")
               => /\ phase \in {"committed", "reconciled"}
                  /\ phase' = "reconciled"
                  /\ db = durable
                  /\ j.external_job_id \notin touched]_vars

\* C6: when import_job upserts a record whose job is closed, the job is open
\* afterwards and its last_seen_at is the timestamp of the importing run.
C6_ReappearingJobReopened ==
    [][Imported =>
           \A j \in db.jobs :
               (j.external_job_id = last'.row.id /\ j.status = "closed")
                   => \E k \in db'.jobs : /\ k.id = j.id
                                          /\ k.status = "open"
                                          /\ k.last_seen_at = run_timestamp]_vars

\* C6 witness: import_job has just reopened a job that is committed as closed
C6_Witness ==
    /\ phase = "importing"
    /\ last.ret
    /\ \E j \in db.jobs : \E k \in durable.jobs :
           /\ j.id = k.id
           /\ j.external_job_id = last.row.id
           /\ k.status = "closed"
           /\ k.last_seen_at < run_timestamp
           /\ j.status = "open"
           /\ j.last_seen_at = run_timestamp

C8_SecondPassClosesNothing ==
    phase = "reconciled"
        => /\ Cardinality(Stale(db, run_timestamp)) = 0
           /\ mark_closed_jobs(db, run_timestamp).jobs = db.jobs
           /\ durable = db

\* C8 witness: the second pass has run after a first pass that closed a job
C8_Witness ==
    /\ phase = "reconciled"
    /\ stats.jobs_closed = 0
    /\ \E j \in durable.jobs : j.status = "closed" /\ j.updated_at = run_timestamp

\* C9: the committed last_seen_at of a job never decreases.
C9_LastSeenMonotonic ==
    [][\A j \in durable.jobs : \A k \in durable'.jobs :
           j.id = k.id => k.last_seen_at >= j.last_seen_at]_vars

\* C10: a committed (job, skill) or (job, location) link stays committed,
\* also when a later run re-ingests the job with no skill or location listed.
C10_LinksAccumulate ==
    [][/\ Pairs(durable.job_skills) \subseteq Pairs(durable'.job_skills)
       /\ Pairs(durable.job_locations) \subseteq Pairs(durable'.job_locations)]_vars

\* C10 witness: a job re-ingested bare is committed and still has its skill
\* and its first location linked
C10_Witness ==
    \E j \in durable.jobs :
        /\ j.title = "t2"
        /\ \E p \in Pairs(durable.job_skills) : p[1] = j.id
        /\ Cardinality({p \in Pairs(durable.job_locations) : p[1] = j.id}) = 2

NoDuplicate(table) ==
    \A k1, k2 \in 1..Len(table) : table[k1] = table[k2] => k1 = k2

\* the job of RowJ1 is linked to the location and to the skill RowJ1 reports
RowJ1Linked(tables) ==
    \E j \in tables.jobs : \E l \in tables.locations : \E s \in tables.skills :
        /\ j.external_job_id = RowJ1.id
        /\ <<l.city, l.state, l.country>> = location_key(LocAB, FALSE)
        /\ s.name = SkillP
        /\ \E cat \in tables.skill_categories :
               cat.id = s.category_id /\ cat.name = "Languages"
        /\ <<j.id, l.id>> \in Pairs(tables.job_locations)
        /\ <<j.id, s.id>> \in Pairs(tables.job_skills)

\* C11: job_locations and job_skills hold each (job, entity) pair at most
\* once, and importing a record whose pairs are all linked already raises no
\* error and leaves both link tables as they were.
C11_LinksAreSets ==
    [][/\ NoDuplicate(db'.job_locations)
       /\ NoDuplicate(db'.job_skills)
       /\ (nread' = nread + 1 /\ txn = "ok" /\ last'.row = RowJ1 /\ RowJ1Linked(db))
              => /\ last'.ret
                 /\ db'.job_locations = db.job_locations
                 /\ db'.job_skills = db.job_skills]_vars

\* C11 witness: a run has imported RowJ1 again, its links being committed
\* already, and the link tables are the committed ones
C11_Witness ==
    /\ phase = "importing"
    /\ last.row = RowJ1
    /\ last.ret
    /\ stats.jobs_updated = 1
    /\ stats.job_skills_created = 1
    /\ RowJ1Linked(durable)
    /\ db.job_skills = durable.job_skills
    /\ db.job_locations = durable.job_locations

\* this step is one call of import_job
Read == nread' = nread + 1

\* C12: a record rejected for a blank external id or an unresolvable company
\* adds exactly one to errors, and the batch goes on.
C12_RejectedCountsOneError ==
    [][(Read /\ (last'.row.id = "" \/ last'.row.company_name \in {"", "Unknown"}))
           => /\ ~last'.ret
              /\ stats'.errors = stats.errors + 1
              /\ phase' = "importing"]_vars

\* this step is one call of save_google_jobs_to_db
GoogleCall == clock' = clock + 1 /\ pending' = pending

\* C13: a record whose source identifier is blank is rejected with no partial
\* write, by import_job (no row, no sequence value, no cache entry) and by
\* save_google_jobs_to_db (nothing committed for a list of such records).
C13_BlankIdWritesNothing ==
    [][/\ (Read /\ last'.row.id = "")
              => /\ ~last'.ret
                 /\ db' = db
                 /\ durable' = durable
                 /\ seq' = seq
                 /\ cache' = cache
       /\ (GoogleCall /\ \A k \in 1..Len(google'.jobs) : google'.jobs[k].job_id = "")
              => /\ durable' = durable
                 /\ seq' = seq]_vars

\* C14: a record whose company reference is missing (an empty company id, or
\* no company name) is not imported: no job row is written and jobs_imported
\* and jobs_updated stay as they were.
C14_NoCompanyNoJob ==
    [][(Read /\ (last'.row.company_id = "" \/ last'.row.company_name \in {"", "Unknown"}))
           => /\ ~last'.ret
              /\ db'.jobs = db.jobs
              /\ stats'.jobs_imported = stats.jobs_imported
              /\ stats'.jobs_updated = stats.jobs_updated]_vars

\* the rows of Records that a store accepts
ValidRows == {RowJ1, RowJ1Bare, RowJ2}

\* import_job has upserted row in this step
Upserted(row) ==
    /\ last'.ret
    /\ \E j \in db'.jobs : /\ j.external_job_id = row.id
                            /\ j.title = row.name
                            /\ j.last_seen_at = run_timestamp

\* C15: a record whose processing raises is caught and counted once in
\* errors, and every valid record, also one read after a failed record, is
\* upserted.
C15_FailureIsolated ==
    [][/\ (Read /\ last'.row = RowBadDate)
              => (~last'.ret /\ stats'.errors = stats.errors + 1 /\ phase' = "importing")
       /\ (Read /\ last'.row \in ValidRows) => Upserted(last'.row)]_vars

\* C16: when the run returns, every record import_job reported as processed
\* has its job row committed as that run wrote it.
C16_ProcessedIsCommitted ==
    phase = "reconciled"
        => \A e \in touched :
               \E j \in durable.jobs : /\ j.external_job_id = e
                                        /\ j.last_seen_at = run_timestamp
                                        /\ j.fetched_at = run_timestamp

\* the "Remote" location rows job_id is linked to
RemoteLinks(tables, job_id) ==
    {l \in tables.locations :
        /\ l.city = <<"R", "e", "m", "o", "t", "e">>
        /\ <<job_id, l.id>> \in Pairs(tables.job_locations)}

\* C17: a job committed from a record with is_remote = true and no location
\* listed is linked to exactly one "Remote" location row, after its first
\* import and after every later run that ingests it again.
C17_OneRemoteLocation ==
    \A j \in durable.jobs :
        j.is_remote => Cardinality(RemoteLinks(durable, j.id)) = 1

HasChar(text, ch) == \E k \in 1..Len(text) : text[k] = ch

\* text up to its second "-" (all of it when it has fewer than two)
FirstTwoParts(text) ==
    IF \E k1, k2 \in 1..Len(text) : k1 < k2 /\ text[k1] = "-" /\ text[k2] = "-"
    THEN SubSeq(text, 1,
                (CHOOSE k2 \in 1..Len(text) :
                     /\ text[k2] = "-"
                     /\ Cardinality({k \in 1..(k2 - 1) : text[k] = "-"}) = 1) - 1)
    ELSE text

\* C18: parse_salary never raises and returns (min, max) for a range,
\* (min, None) for a single bound with no second part, and (None, None) for
\* None, empty or unparseable text; "$90,000 - $120,000" gives
\* (90000, 120000) and "$75000" gives (75000, None).
C18_ParseSalary ==
    salary.called
        => /\ salary.exc = ""
           /\ salary.value[1] = NoNumber => salary.value[2] = NoNumber
           /\ salary_str = SalaryRange => salary.value = <<90000, 120000>>
           /\ salary_str = SalarySingle => salary.value = <<75000, NoNumber>>
           /\ salary_str = <<"7", "-", "7">> => salary.value = <<7, 7>>
           /\ salary_str = <<"$", "7", ",", "7">> => salary.value = <<77, NoNumber>>
           /\ salary_str \in {None, <<>>, <<" ">>, <<" ", " ">>}
                  => salary.value = <<NoNumber, NoNumber>>
           /\ (salary_str # None /\ ~HasChar(salary_str, "-"))
                  => salary.value[2] = NoNumber
           /\ (salary_str # None /\ HasChar(FirstTwoParts(salary_str), "x"))
                  => salary.value = <<NoNumber, NoNumber>>
           /\ (salary_str # None /\ FirstTwoParts(salary_str) # <<>>
                   /\ FirstTwoParts(salary_str)[Len(FirstTwoParts(salary_str))] = "-")
                  => salary.value = <<NoNumber, NoNumber>>

\* C18 witness: parse_salary has returned the two bounds of the range text
C18_Witness ==
    /\ salary.called
    /\ salary_str = SalaryRange
    /\ salary.value = <<90000, 120000>>

\* the skill rows of tables named skill_name under the category category_name
SkillRows(tables, skill_name, category_name) ==
    {r \in tables.skills :
        /\ r.name = skill_name
        /\ \E cat \in tables.skill_categories :
               cat.id = r.category_id /\ cat.name = category_name}

\* C19: a skill is identified by (name, category): a name under two
\* categories has two rows with two ids, a pair has one row whose id stays
\* the one first committed, and a later resolution of the pair, in the same or
\* a later run, yields that id (the cache holds it, the job is linked to it).
C19_SkillPerCategory ==
    [][/\ \A a, b \in db'.skills :
              (a.id = b.id \/ (a.name = b.name /\ a.category_id = b.category_id)) => a = b
       /\ durable.skills \subseteq durable'.skills
       /\ txn' = "ok"
              => \A key \in DOMAIN cache'.skill :
                     cache'.skill[key] \in Ids(SkillRows(db', key[1], key[2]))
       /\ (Imported /\ last'.row \in {RowJ1, RowJ2})
              => \A cat \in DOMAIN last'.row.skills :
                     /\ \E r \in SkillRows(db', SkillP, cat) : \E j \in db'.jobs :
                            /\ j.external_job_id = last'.row.id
                            /\ <<j.id, r.id>> \in Pairs(db'.job_skills)
                     /\ SkillRows(db, SkillP, cat) # {}
                            => SkillRows(db', SkillP, cat) = SkillRows(db, SkillP, cat)
       /\ (GoogleCall /\ google'.stats.jobs_imported + google'.stats.jobs_updated > 0)
              => \A k \in 1..Len(google'.jobs) : \A cat \in DOMAIN google'.jobs[k].skills_found :
                     google'.jobs[k].location # None /\ google'.jobs[k].company_name # ""
                         => /\ \E r \in SkillRows(durable', SkillP, cat) :
                                   \E j \in durable'.jobs :
                                       <<j.id, r.id>> \in Pairs(durable'.job_skills)
                            /\ SkillRows(durable, SkillP, cat) # {}
                                   => SkillRows(durable', SkillP, cat)
                                          = SkillRows(durable, SkillP, cat)]_vars

\* C19 witness: the skill p is committed under two categories with two ids,
\* each linked to a job, and the migrator has resolved one of them from the
\* store in a later run
C19_Witness ==
    /\ \E a \in SkillRows(durable, SkillP, "Languages") :
           \E b \in SkillRows(durable, SkillP, "Tools_Infrastructure") :
               /\ a.id # b.id
               /\ a.id \in {p[2] : p \in Pairs(durable.job_skills)}
               /\ b.id \in {p[2] : p \in Pairs(durable.job_skills)}
               /\ phase = "importing"
               /\ cache.skill = Put(EmptyDict, <<SkillP, "Languages">>, a.id)

\* the text is empty or whitespace only
Blank(text) == strip(text) = <<>>

\* C20: resolving an empty or whitespace-only skill name raises nothing and
\* leaves no skill row, no category row and no cache entry, and import_job
\* links the job to the named skills of the row only.
C20_BlankSkillSkipped ==
    [][/\ \A s \in db'.skills : ~Blank(s.name)
       /\ \A key \in DOMAIN cache'.skill : ~Blank(key[1])
       /\ "Concepts" \notin DOMAIN cache'.skill_category
       /\ "Concepts" \notin {cat.name : cat \in db'.skill_categories}
       /\ (Read /\ last'.row = RowBlankSkills /\ txn = "ok")
              => /\ last'.ret
                 /\ txn' = "ok"
                 /\ stats'.errors = stats.errors
                 /\ stats'.job_skills_created = stats.job_skills_created + 1
                 /\ \E j \in db'.jobs :
                        /\ j.external_job_id = RowBlankSkills.id
                        /\ {p \in Pairs(db'.job_skills) : p[1] = j.id}
                               \ {p \in Pairs(db.job_skills) : p[1] = j.id}
                           \subseteq {<<j.id, r.id>> :
                                          r \in SkillRows(db', SkillP, "Languages")}]_vars

\* C20 witness: the row with the blank skill names has been imported into an
\* empty store: one skill row, p, and one link
C20_Witness ==
    /\ phase = "importing"
    /\ last = [row |-> RowBlankSkills, ret |-> TRUE]
    /\ nread = 1
    /\ stats.job_skills_created = 1
    /\ Cardinality(db.skills) = 1
    /\ Len(db.job_skills) = 1
    /\ DOMAIN cache.skill = {<<SkillP, "Languages">>}

\* the entries of the dict before are entries of the dict after
Kept(before, after) ==
    \A key \in DOMAIN before : key \in DOMAIN after /\ after[key] = before[key]

\* the rows inserted by the step are one per natural key, for keys the cache
\* did not hold, and the cache holds each key with the new row's id afterwards
InsertedOnce(old, new, before, after, KeyOf(_)) ==
    \A r \in new \ old :
        /\ KeyOf(r) \notin DOMAIN before
        /\ KeyOf(r) \in DOMAIN after
        /\ after[KeyOf(r)] = r.id
        /\ \A q \in new \ old : KeyOf(q) = KeyOf(r) => q = r

CategoryKey(r) == r.name

CompanyKey(r) == r.name

LocationKey(r) == <<r.city, r.state, r.country>>

\* C21: within one migrator's lifetime a natural key keeps the id it first
\* resolved to, and a row is inserted for it at most once: every call of
\* import_job keeps the cache entries it found, and inserts rows only for
\* keys the caches did not hold, one row per key, for each of the four kinds.
C21_OneInsertPerKey ==
    [][Read =>
        /\ Kept(cache.skill_category, cache'.skill_category)
        /\ Kept(cache.skill, cache'.skill)
        /\ Kept(cache.company, cache'.company)
        /\ Kept(cache.location, cache'.location)
        /\ InsertedOnce(db.skill_categories, db'.skill_categories,
                        cache.skill_category, cache'.skill_category, CategoryKey)
        /\ InsertedOnce(db.companies, db'.companies,
                        cache.company, cache'.company, CompanyKey)
        /\ InsertedOnce(db.locations, db'.locations,
                        cache.location, cache'.location, LocationKey)
        /\ \A r \in db'.skills \ db.skills :
               \E cat \in db'.skill_categories :
                   /\ cat.id = r.category_id
                   /\ <<r.name, cat.name>> \notin DOMAIN cache.skill
                   /\ <<r.name, cat.name>> \in DOMAIN cache'.skill
                   /\ cache'.skill[<<r.name, cat.name>>] = r.id
                   /\ \A q \in db'.skills \ db.skills :
                          (q.name = r.name /\ q.category_id = r.category_id) => q = r
        /\ seq'.skill_categories - seq.skill_categories
               = Cardinality(db'.skill_categories \ db.skill_categories)
        /\ seq'.skills - seq.skills = Cardinality(db'.skills \ db.skills)
        /\ seq'.companies - seq.companies = Cardinality(db'.companies \ db.companies)
        /\ seq'.locations - seq.locations = Cardinality(db'.locations \ db.locations)]_vars

\* C21 witness: one migrator has imported the remote row twice and the row
\* with skill p, each key resolved more than once, with one company, one
\* Remote location, one category and one skill created
C21_Witness ==
    /\ phase = "importing"
    /\ batch = <<RowJ1Bare, RowJ1, RowJ1Bare>>
    /\ atStart = EmptyTables
    /\ stats.errors = 0
    /\ stats.companies_created = 1
    /\ {r \in db.locations : r.state = None} # {}
    /\ Cardinality({r \in db.locations : r.state = None}) = 1
    /\ Cardinality(db.companies) = 1

\* this step is a call of import_job during which another writer committed
\* the company named by the row, after the migrator had looked it up
Raced ==
    /\ Read
    /\ i' % COMMIT_EVERY # 0
    /\ \E r \in durable'.companies \ durable.companies :
           r.name = last'.row.company_name /\ r \notin db.companies

\* C22: when the INSERT of a dimension row fails on the unique key because
\* another writer inserted the key after the lookup, the resolver re-reads
\* and returns the existing row's id: import_job goes on, returns True, and
\* counts no error.
C22_RaceFallsBackToReread ==
    [][Raced =>
          /\ last'.ret
          /\ stats'.errors = stats.errors
          /\ txn' = "ok"
          /\ last'.row.company_name \in DOMAIN cache'.company
          /\ cache'.company[last'.row.company_name]
                 \in Ids({r \in durable'.companies : r.name = last'.row.company_name})]_vars

\* this step is a call of import_job during which the connection is lost
ConnectionLost == txn # "lost" /\ txn' = "lost"

\* C24: a failure of the whole store (the connection lost) while a record is
\* processed leaves the run: it is not counted as an error of the record with
\* the loop going on to the next record.
C24_StoreFailureEndsRun ==
    [][ConnectionLost => (phase' = "idle" /\ stats'.errors = stats.errors)]_vars

\* this step is a mark_closed_jobs whose UPDATE raised
FailedPass == phase = "committed" /\ phase' # "reconciled"

\* C25: when the UPDATE of mark_closed_jobs fails, the run goes on to its end
\* without an exception, the committed store is what the batch left (every job
\* the batch upserted is open with the run's last_seen_at), and no status or
\* count is changed by the pass.
C25_FailedPassKeepsBatch ==
    [][FailedPass =>
          /\ phase' = "unreconciled"
          /\ durable' = durable
          /\ stats' = stats
          /\ \A j \in durable.jobs :
                 j.last_seen_at = run_timestamp => (j.status = "open" /\ j \in durable'.jobs)
          /\ stats.errors = 0 =>
                 \A id \in touched : \E j \in durable'.jobs :
                     /\ j.external_job_id = id
                     /\ j.status = "open"
                     /\ j.last_seen_at = run_timestamp]_vars

\* C25 witness: the pass of a run that upserted a job has failed, and a job
\* the run did not see, which the pass would have closed, is still open
C25_Witness ==
    /\ phase = "unreconciled"
    /\ \E j \in durable.jobs : j.last_seen_at = run_timestamp /\ j.status = "open"
    /\ Stale(durable, run_timestamp) # {}
    /\ stats.jobs_closed = 0

\* every id the four caches hold is the id of a row of tables with the
\* cached natural key
CachesMatch(caches, tables) ==
    /\ \A key \in DOMAIN caches.company :
           \E r \in tables.companies : r.id = caches.company[key] /\ CompanyKey(r) = key
    /\ \A key \in DOMAIN caches.location :
           \E r \in tables.locations : r.id = caches.location[key] /\ LocationKey(r) = key
    /\ \A key \in DOMAIN caches.skill_category :
           \E r \in tables.skill_categories :
               r.id = caches.skill_category[key] /\ CategoryKey(r) = key
    /\ \A key \in DOMAIN caches.skill :
           caches.skill[key] \in Ids(SkillRows(tables, key[1], key[2]))

\* C23: at every point of a run whose transaction is usable, every id held in
\* the four caches is the id of a row the store holds under that natural key,
\* also after a record has failed and the writes of its transaction have been
\* discarded.
C23_CacheMatchesStore ==
    (phase \in {"importing", "committed", "reconciled"} /\ txn = "ok")
        => CachesMatch(cache, db)

\* the caches match the store as long as no record of the run has failed
CachesMatchWithoutFailure ==
    (phase \in {"importing", "committed", "reconciled"} /\ txn = "ok" /\ stats.errors = 0)
        => CachesMatch(cache, db)

\* the rows of tables without their ids and timestamps: how many rows each
\* table holds, the natural keys, and each job's status
Shape(tables) ==
    [counts |-> <<RowCounts(tables), Cardinality(tables.skill_categories),
                  Len(tables.job_locations), Len(tables.job_skills)>>,
     companies |-> {CompanyKey(r) : r \in tables.companies},
     locations |-> {LocationKey(r) : r \in tables.locations},
     categories |-> {CategoryKey(r) : r \in tables.skill_categories},
     skills |-> {r.name : r \in tables.skills},
     jobs |-> {<<j.external_job_id, j.status>> : j \in tables.jobs}]

\* this run has read the whole file and reconciled, on a store that earlier
\* runs, all interrupted, had left with a committed prefix of the file
Resumed ==
    /\ phase = "reconciled"
    /\ ~prev.done
    /\ atStart # EmptyTables
    /\ Len(batch) = MaxFileRows

\* C26: a run interrupted after committing a prefix of the batch, followed by
\* a run that reads the whole batch and reconciles, leaves the job, dimension
\* and link rows and the statuses that one uninterrupted run of the batch
\* leaves on the same initial store.
C26_ResumeEqualsOneRun ==
    Resumed => Shape(durable) = Shape(migrate(EmptyTables, EmptySeqs, batch, run_timestamp))

\* the jobs, their statuses, the companies, categories and skills are those of
\* the uninterrupted run
ResumeKeepsJobs ==
    Resumed =>
        LET one == Shape(migrate(EmptyTables, EmptySeqs, batch, run_timestamp))
        IN /\ Shape(durable).jobs = one.jobs
           /\ Shape(durable).companies = one.companies
           /\ Shape(durable).skills = one.skills
           /\ Shape(durable).categories = one.categories
           /\ Shape(durable).locations = one.locations

\* the number of commas of the text
RECURSIVE Commas(_)
Commas(text) ==
    IF text = <<>> THEN 0
    ELSE (IF Head(text) = "," THEN 1 ELSE 0) + Commas(Tail(text))

\* the key of the sentinel location
Sentinel == <<RemoteText, None, "USA">>

\* the description names a city: it is not blank and is not the remote marker
CityBearing(text) == ~Blank(text) /\ text # RemoteText /\ ~Blank(split(text)[1])

\* a "City, ST" description is keyed by the trimmed text before its comma and
\* the trimmed text after it, by both parsers
CityStateKeyed ==
    (located.called /\ Commas(job_city.name) = 1) =>
        /\ located.key = <<strip(SubSeq(job_city.name, 1, FirstComma(job_city.name) - 1)),
                           strip(SubSeq(job_city.name, FirstComma(job_city.name) + 1,
                                        Len(job_city.name))),
                           "USA">>
        /\ located.google = <<located.key[1], located.key[2]>>

\* C27: get_or_create_location keys a "City, ST" description by the trimmed
\* text before the first comma and the trimmed text after it, and keys the
\* remote marker by one sentinel, whatever is_remote is, to which no
\* description naming a city resolves.
C27_LocationKey ==
    located.called =>
        /\ CityStateKeyed
        /\ job_city.name = RemoteText => located.key = Sentinel
        /\ CityBearing(job_city.name) => located.key # Sentinel

\* the two dicts hold the same keys
SameKeys(a, b) == DOMAIN a = DOMAIN b

\* the two dicts give the same id for every key
SameIds(a, b) == SameKeys(a, b) /\ \A key \in DOMAIN a : a[key] = b[key]

FoundInBoth(a, b, key, ids) == a[key] \in ids /\ b[key] = a[key]

JobsOf(tables, external_job_id) ==
    {j \in tables.jobs : j.external_job_id = external_job_id}

\* the job row carries the fields of the row read
CarriesFields(j, row, caches, ts) ==
    /\ j.title = row.name
    /\ j.company_id = caches.company[row.company_name]
    /\ j.is_remote = IsRemote(row)
    /\ j.publication_date = PubDate(row)
    /\ j.status = "open"
    /\ j.last_seen_at = ts

JobsKept(old, new) ==
    \A j \in old : \E k \in new : k.id = j.id /\ k.external_job_id = j.external_job_id

\* C30: no step removes a row: a Company, Location, Skill or SkillCategory
\* row of the durable store is in it, unchanged, after every step, and a Job
\* row is in it under the same id and external id.
C30_NoRowRemoved ==
    [][/\ durable.companies \subseteq durable'.companies
       /\ durable.locations \subseteq durable'.locations
       /\ durable.skills \subseteq durable'.skills
       /\ durable.skill_categories \subseteq durable'.skill_categories
       /\ JobsKept(durable.jobs, durable'.jobs)]_vars

\* C30 witness: a later run has reconciled and closed a job an earlier run
\* had committed, and every row the run found is still there
C30_Witness ==
    /\ phase = "reconciled"
    /\ atStart.jobs # {}
    /\ stats.jobs_closed > 0
    /\ \E j \in durable.jobs : j.status = "closed"
    /\ atStart.companies \subseteq durable.companies
    /\ JobsKept(atStart.jobs, durable.jobs)

\* every job references a company of the tables
JobsReferToCompanies(tables) == \A j \in tables.jobs : j.company_id \in Ids(tables.companies)

\* every skill references a category of the tables
SkillsReferToCategories(tables) ==
    \A r \in tables.skills : r.category_id \in Ids(tables.skill_categories)

\* every link references a job and a location or skill of the tables
LinksRefer(tables) ==
    /\ \A pair \in Pairs(tables.job_locations) :
           pair[1] \in Ids(tables.jobs) /\ pair[2] \in Ids(tables.locations)
    /\ \A pair \in Pairs(tables.job_skills) :
           pair[1] \in Ids(tables.jobs) /\ pair[2] \in Ids(tables.skills)

\* C31: when the replication has completed, every foreign key of the target
\* references an existing row: jobs.company_id, skills.category_id and both
\* columns of job_locations and job_skills, whatever orphans the source held.
C31_ReplicaReferences ==
    replication.at = "done" =>
        /\ JobsReferToCompanies(durable)
        /\ SkillsReferToCategories(durable)
        /\ LinksRefer(durable)

\* the link tables of the completed replica hold no orphan
ReplicaLinksRefer == replication.at = "done" => LinksRefer(durable)

\* C32: when the replication has completed, the sequence of every table is at
\* the largest id of the table (at 1 for a table without rows), so that the
\* next id it generates is greater than every id of the table.
C32_SequencesReset ==
    replication.at = "done" =>
        \A t \in DOMAIN seq :
            /\ durable[t] # {} => seq[t] = MaxId(durable[t])
            /\ durable[t] = {} => seq[t] = 1
            /\ \A id \in Ids(durable[t]) : seq[t] + 1 > id

\* C32 witness: the replication has completed on a file whose only skill has
\* id 3, with both jobs and no location
C32_Witness ==
    /\ replication.at = "done"
    /\ Ids(durable.skills) = {3}
    /\ seq.skills = 3
    /\ seq.jobs = 2
    /\ durable.locations = {}

\* C38: in every committed state each job_locations and job_skills row
\* references a job and a location or skill of the store, and each job
\* references a company of the store.
C38_CommittedReferences == LinksRefer(durable) /\ JobsReferToCompanies(durable)

\* this step is the mark_closed_jobs of the run
Reconciled == phase \in {"committed", "reconciled"} /\ phase' = "reconciled"

\* C33: every job row a run inserts or updates carries the run's one
\* run_timestamp in last_seen_at and fetched_at, and mark_closed_jobs of the
\* run uses that value as its cutoff: it closes the open jobs stamped before it
\* and none stamped with it.
C33_OneTimestampPerRun ==
    [][/\ (phase # "idle" /\ phase' # "idle") => run_timestamp' = run_timestamp
       /\ Read => \A j \in db'.jobs \ db.jobs :
                      j.last_seen_at = run_timestamp /\ j.fetched_at = run_timestamp
       /\ Imported => \E j \in JobsOf(db', last'.row.id) :
                          j.last_seen_at = run_timestamp /\ j.fetched_at = run_timestamp
       /\ Reconciled =>
              \A j \in durable.jobs :
                  IF j.status = "open" /\ j.last_seen_at < run_timestamp
                  THEN [j EXCEPT !.status = "closed", !.updated_at = run_timestamp]
                           \in durable'.jobs
                  ELSE j \in durable'.jobs]_vars

\* C33 witness: a run has reconciled: a job it upserted is open with the
\* run's timestamp in last_seen_at and fetched_at, and a job stamped by an
\* earlier run has been closed at the run's timestamp
C33_Witness ==
    /\ phase = "reconciled"
    /\ \E j \in durable.jobs :
           /\ j.status = "open"
           /\ j.last_seen_at = run_timestamp
           /\ j.fetched_at = run_timestamp
    /\ \E j \in durable.jobs :
           /\ j.status = "closed"
           /\ j.last_seen_at < run_timestamp
           /\ j.updated_at = run_timestamp

\* the run has committed its batch, no record of which failed
BatchCommitted == phase = "committed" /\ stats.errors = 0

\* the company and location counters are the numbers of rows the run inserted
DimensionCountersExact ==
    BatchCommitted =>
        /\ stats.companies_created
               = Cardinality(durable.companies) - Cardinality(atStart.companies)
        /\ stats.locations_created
               = Cardinality(durable.locations) - Cardinality(atStart.locations)

\* C34: at the end of a run each created-counter is the number of rows of its
\* kind the run inserted: companies_created, locations_created, and
\* job_skills_created for the job_skills rows, a link that already existed not
\* being counted.
C34_CountersAreInserts ==
    BatchCommitted =>
        /\ DimensionCountersExact
        /\ stats.job_skills_created = Len(durable.job_skills) - Len(atStart.job_skills)

\* the job counters as the claim has them
JobCountersExact ==
    /\ stats.jobs_imported = Cardinality(durable.jobs) - Cardinality(atStart.jobs)
    /\ stats.jobs_updated > 0 => \E j \in durable.jobs : j.last_seen_at = run_timestamp
    /\ stats.jobs_imported + stats.jobs_updated + stats.errors = Len(batch)

\* the job counters are exact when no record of the run failed
JobCountersExactWithoutFailure == BatchCommitted => JobCountersExact

\* C35: at the end of a run jobs_imported is the number of job rows the run
\* durably inserted, jobs_updated the number of updates it durably applied,
\* and a record counted under errors is counted under neither.
C35_JobCountersDurable == phase = "committed" => JobCountersExact

\* C36: mark_closed_jobs changes the status and updated_at of the jobs it
\* closes and nothing else: their other columns, the jobs already closed, the
\* jobs stamped by the run, and every dimension and link row stay as they were.
C36_PassFrame ==
    [][Reconciled =>
          /\ Cardinality(durable'.jobs) = Cardinality(durable.jobs)
          /\ \A j \in durable.jobs :
                 \/ j \in durable'.jobs
                 \/ /\ j.status = "open"
                    /\ j.last_seen_at < run_timestamp
                    /\ [j EXCEPT !.status = "closed", !.updated_at = run_timestamp]
                           \in durable'.jobs
          /\ \A j \in durable.jobs :
                 (j.status = "closed" \/ j.last_seen_at = run_timestamp) => j \in durable'.jobs
          /\ [durable' EXCEPT !.jobs = {}] = [durable EXCEPT !.jobs = {}]]_vars

\* C36 witness: the pass has closed a linked job, which keeps the last_seen_at
\* and fetched_at of the run that saw it, next to a job an earlier pass had
\* closed, which keeps its updated_at
C36_Witness ==
    /\ phase = "reconciled"
    /\ stats.jobs_closed = 1
    /\ Len(durable.job_locations) > 0
    /\ \E j \in durable.jobs :
           /\ j.status = "closed"
           /\ j.updated_at = run_timestamp
           /\ j.last_seen_at < run_timestamp
           /\ j.fetched_at = j.last_seen_at
    /\ \E j \in durable.jobs : j.status = "closed" /\ j.updated_at < run_timestamp

\* the committed jobs that save_google_jobs_to_db wrote
GoogleWritten == {j \in durable.jobs : \E g \in GoogleJobs : j.external_job_id = google_external_id(g)}

\* job j is closed after the step
ClosedAfter(j) == \E k \in durable'.jobs : k.id = j.id /\ k.status = "closed"

\* a closed job written by save_google_jobs_to_db stays closed on every step
\* that is not a call of save_google_jobs_to_db
StaysClosed ==
    [][~GoogleCall => \A j \in GoogleWritten : j.status = "closed" => ClosedAfter(j)]_vars

\* the pass of a migrator constructed after a job was last written closes it
ClosedByLaterMigrator ==
    [][Reconciled => \A j \in durable.jobs :
                        (j.status = "open" /\ j.last_seen_at < run_timestamp) => ClosedAfter(j)]_vars

\* C37: the pass closes every open job not stamped by the run, whichever path
\* wrote it: a job save_google_jobs_to_db inserted is closed by the next
\* migrator run and stays closed until save_google_jobs_to_db writes it again.
C37_ClosesEveryPath ==
    [][/\ Reconciled => \A j \in durable.jobs :
                            (j.status = "open" /\ j.last_seen_at # run_timestamp)
                                => ClosedAfter(j)
       /\ ~GoogleCall => \A j \in GoogleWritten : j.status = "closed" => ClosedAfter(j)]_vars

\* a pass has closed a job that save_google_jobs_to_db wrote
GoogleJobClosed ==
    /\ phase = "reconciled"
    /\ \E j \in GoogleWritten : j.status = "closed" /\ j.updated_at = run_timestamp

====
